---- MODULE Spec2Model ----
(***************************************************************************)
(* PulserBot: the job dispatcher with its lock ledger (trigger_jobs.py)    *)
(* and the selection store (src/services/sheets_service.py).               *)
(*                                                                         *)
(* Spec      dispatcher invocations that may overlap, remote calls may     *)
(*           fail                                                          *)
(* SpecSolo  dispatcher invocations one after the other, remote calls may  *)
(*           fail, the Jobs sheet has any of the header rows               *)
(* SpecSeq   dispatcher invocations one after the other, every remote call *)
(*           succeeds                                                      *)
(* SpecStore one caller at a time of get_unused_item / mark_item_as_used   *)
(*           on a content store, remote calls may fail                     *)
(* SpecMark  calls of mark_item_as_used with kept Row Indexes while the    *)
(*           clock goes on                                                 *)
(* SpecRotation  sequential calls of _get_rotating_content on a rotation   *)
(*           sheet and the payload sheets                                  *)
(* SpecRotationCalls  the same calls, every remote call succeeding        *)
(* SpecStoreRace  two callers of get_unused_item / mark_item_as_used whose *)
(*           steps interleave                                              *)
(* SpecCycle one caller alternating get_unused_item and mark_item_as_used  *)
(*           under one language filter, every remote call succeeding       *)
(* SpecWindow  dispatcher invocations one after the other while the clock  *)
(*           passes the edges of the windows                               *)
(* SpecJob   one run of JobProcessor.execute (src/core.py)                 *)
(* SpecSchedule  dispatcher invocations one after the other on a schedule  *)
(*           whose time strings can be malformed                           *)
(* SpecStrategy  one run of execute() of a content strategy                *)
(*           (src/prompt_type), remote calls may fail                      *)
(***************************************************************************)
EXTENDS Integers, Sequences, FiniteSets, TLC

(***************************************************************************)
(* Bounds of the model.                                                    *)
(***************************************************************************)
\* Dispatcher invocations in one behaviour.
MaxInvocations == 2

\* Data rows of a content store.
MaxRows == 2

(***************************************************************************)
(* Program constants and configuration.                                    *)
(***************************************************************************)
TIME_WINDOW_MINUTES == 29

MinutesPerDay == 24 * 60

\* Europe/Bratislava (the default TZ), winter time: local = UTC + 60 min.
TzOffsetMinutes == 60

\* config.json "schedule", in the order of the JSON object; the values are
\* the "HH:MM" strings, kept as the two fields split(":") yields.
SlotOrder == <<"time1", "time2">>

scheduled_jobs == [time1 |-> <<0, 10>>, time2 |-> <<0, 30>>]

\* A field of a schedule string on which int() raises ValueError ("ab";
\* "-1", which int() takes and replace() rejects, ends the same way).
NotANumber == 0 - 1

\* Schedule strings that are no "HH:MM": without the colon ("7"), with a
\* third field ("00:10:00"), with a field that is no number ("ab:10") and
\* with an hour no clock shows ("25:00").
MalformedTimes == { <<7>>, <<0, 10, 0>>, <<NotANumber, 10>>, <<25, 0>> }

\* The schedules config.json may hold: every slot with its time or with a
\* string that is no time.
Schedules ==
    { [time1 |-> a, time2 |-> b] :
        a \in {scheduled_jobs["time1"]} \cup MalformedTimes,
        b \in {scheduled_jobs["time2"]} \cup MalformedTimes }

\* main, lines 146-150: hour, minute = map(int, s.split(":")) raises
\* ValueError unless there are two fields and both are numbers, and
\* replace(hour=hour, minute=minute) unless they are a time of day.
ScheduleRaises(hm) ==
    \/ Len(hm) # 2
    \/ \E i \in 1..2 : hm[i] = NotANumber
    \/ hm[1] \notin 0..23
    \/ hm[2] \notin 0..59

\* Mutant of NextAfterError: the try statement is around the loop.
LoopEndsAfterError(i) == Len(SlotOrder) + 1

\* main, lines 166-170: the except clause is inside the loop body, the
\* for statement goes on with the next item of scheduled_jobs.
NextAfterError(i) == i + 1

REQUIRED_HEADERS == {"job_key", "trigger_timestamp_utc", "status"}

\* The dispatcher processes that can be alive at once (distinct scheduler
\* ticks, or a manual run overlapping an automated one).
Procs == {1, 2}

(***************************************************************************)
(* Time: the clock counts UTC minutes from 2025-03-14 00:00 UTC.           *)
(***************************************************************************)
Pad2(n) == IF n < 10 THEN "0" \o ToString(n) ELSE ToString(n)

\* strftime("%Y-%m-%d") of the day with number d (day 0 is 2025-03-14).
DateStr(d) == "2025-03-" \o Pad2(14 + d)

\* datetime.now(timezone.utc).strftime("%Y-%m-%d %H:%M:%S UTC")
UtcStamp(t) ==
    DateStr(t \div MinutesPerDay) \o " " \o Pad2((t % MinutesPerDay) \div 60)
        \o ":" \o Pad2(t % 60) \o ":00 UTC"

\* datetime.now(target_tz): the local wall clock, in minutes.
LocalNow(t) == t + TzOffsetMinutes

\* datetime.now(target_tz).strftime("%Y-%m-%d")
TodayLocal(t) == DateStr(LocalNow(t) \div MinutesPerDay)

\* datetime.now(target_tz).replace(hour, minute, 0, 0).astimezone(utc)
ScheduledDtUtc(t, hm) ==
    (LocalNow(t) \div MinutesPerDay) * MinutesPerDay + hm[1] * 60 + hm[2]
        - TzOffsetMinutes

\* (now_utc - scheduled_dt_utc).total_seconds() / 60
TimeDiffMinutes(nowUtc, t, hm) == nowUtc - ScheduledDtUtc(t, hm)

\* Mutant of InWindow: the window never closes.
InWindowOpenEnded(diff) == 0 <= diff

\* 0 <= time_diff_minutes <= TIME_WINDOW_MINUTES
InWindow(diff) == 0 <= diff /\ diff <= TIME_WINDOW_MINUTES

\* Mutant of JobKey: the key is the slot, without the date.
JobKeyOfSlotOnly(time_key, today) == time_key

\* f"{time_key}_{today_local}"
JobKey(time_key, today) == time_key \o "_" \o today

\* The instants the clock visits: the scheduled minute of every slot (in
\* UTC), on every local day of the model.  At the second slot's minute the
\* windows of both slots are open.
SlotOffsets(hm) == {hm[1] * 60 + hm[2] - TzOffsetMinutes}

Days == {1, 2}

Instants ==
    UNION { { d * MinutesPerDay + o :
                o \in UNION { SlotOffsets(scheduled_jobs[k]) :
                                k \in DOMAIN scheduled_jobs } } :
            d \in Days }

FirstInstant == CHOOSE t \in Instants : \A u \in Instants : t <= u

\* The instants around the window of a slot: the minute before its
\* scheduled time, that minute, the last minute of the window and the first
\* after it.
WindowOffsets(hm) ==
    { hm[1] * 60 + hm[2] - TzOffsetMinutes + m :
        m \in {0 - 1, 0, TIME_WINDOW_MINUTES, TIME_WINDOW_MINUTES + 1} }

WindowInstants ==
    UNION { { d * MinutesPerDay + o :
                o \in UNION { WindowOffsets(scheduled_jobs[k]) :
                                k \in DOMAIN scheduled_jobs } } :
            d \in Days }

FirstWindowInstant ==
    CHOOSE t \in WindowInstants : \A u \in WindowInstants : t <= u

LocalDates == { DateStr(d) : d \in Days }

JobKeys == { JobKey(k, d) : k \in DOMAIN scheduled_jobs, d \in LocalDates }

\* The job keys of the local date of instant t.
TodayKeys(t) == { JobKey(k, TodayLocal(t)) : k \in DOMAIN scheduled_jobs }

(***************************************************************************)
(* The lock ledger: the rows of the "Jobs" worksheet, row 1 the header.    *)
(***************************************************************************)
\* The header row in the order mark_job_as_triggered writes its cells ...
LedgerHeader == <<"job_key", "trigger_timestamp_utc", "status">>

\* ... and the header rows a sheet may have instead: another order, a
\* required name missing.
LedgerHeaders ==
    { LedgerHeader,
      <<"trigger_timestamp_utc", "status", "job_key">>,
      <<"job_key", "timestamp", "status">>,
      <<"status", "trigger_timestamp_utc", "key">> }

\* worksheet.row_values(1)
RowValues(sheet, r) == IF r <= Len(sheet) THEN sheet[r] ELSE <<>>

\* worksheet.col_values(c): the cells of column c, header cell included.
ColValues(sheet, c) == [i \in 1..Len(sheet) |-> sheet[i][c]]

\* Mutant of HeadersValid: any() in place of all().
HeadersValidAny(headers) ==
    \E h \in REQUIRED_HEADERS : \E i \in 1..Len(headers) : headers[i] = h

\* all(h in headers for h in ["job_key", "trigger_timestamp_utc", "status"])
HeadersValid(headers) ==
    \A h \in REQUIRED_HEADERS : \E i \in 1..Len(headers) : headers[i] = h

\* `job_key in all_job_keys_in_sheet`: Python's list membership, a scan
\* from the first cell that stops at the first equal one.
RECURSIVE ScanFrom(_, _, _)
ScanFrom(col, i, job_key) ==
    IF i > Len(col) THEN FALSE
    ELSE IF col[i] = job_key THEN TRUE
    ELSE ScanFrom(col, i + 1, job_key)

KeyInColumn(col, job_key) == ScanFrom(col, 1, job_key)

\* Mutant of CheckResult: a single-cell lookup, the first data row only.
CheckResultFirstRow(readOk, col, job_key) ==
    IF readOk THEN Len(col) >= 2 /\ col[2] = job_key ELSE TRUE

\* Mutant of CheckResult: an exception of the read answers "has not run".
CheckResultFailOpen(readOk, col, job_key) ==
    IF readOk THEN KeyInColumn(col, job_key) ELSE FALSE

\* The value check_if_job_ran returns: the scan's answer, True on an
\* exception of the read.
CheckResult(readOk, col, job_key) ==
    IF readOk THEN KeyInColumn(col, job_key) ELSE TRUE

\* worksheet.append_row([job_key, timestamp_utc, status])
AppendRow(sheet, row) == Append(sheet, row)

\* Mutant of MarkResult: insert_row(row, index=2) in place of append_row.
MarkResultInsert(sheet, appendOk, job_key, t) ==
    IF appendOk
    THEN <<sheet[1], <<job_key, UtcStamp(t), "TRIGGERED">> >> \o Tail(sheet)
    ELSE sheet

\* What mark_job_as_triggered leaves in the sheet: the row appended, or the
\* sheet as it was when append_row raised.
MarkResult(sheet, appendOk, job_key, t) ==
    IF appendOk
    THEN AppendRow(sheet, <<job_key, UtcStamp(t), "TRIGGERED">>)
    ELSE sheet

(***************************************************************************)
(* The selection store: a content worksheet, row 1 the header, and the     *)
(* calls of SheetsService on it.                                           *)
(***************************************************************************)
\* The callers that can work on one store (separate processes).
Callers == {1, 2}

\* language=None
NoLang == "<None>"

\* (None, None)
NoItem == <<>>

\* str.upper() and str.lower() on the cell values of the model.
Upper(s) ==
    CASE s = "false" -> "FALSE"
      [] s = "true" -> "TRUE"
      [] s = "english" -> "ENGLISH"
      [] s = "English" -> "ENGLISH"
      [] s = "slovak" -> "SLOVAK"
      [] OTHER -> s

Lower(s) ==
    CASE s = "FALSE" -> "false"
      [] s = "TRUE" -> "true"
      [] s = "English" -> "english"
      [] OTHER -> s

\* dict(zip(header, row)): the last of several cells under one name wins.
Dict(hdr, row) ==
    LET n == IF Len(hdr) < Len(row) THEN Len(hdr) ELSE Len(row)
    IN  [name \in { hdr[i] : i \in 1..n } |->
            row[CHOOSE i \in 1..n :
                    hdr[i] = name /\ \A j \in (i + 1)..n : hdr[j] # name]]

\* row.get(key, default)
Get(rec, key, default) == IF key \in DOMAIN rec THEN rec[key] ELSE default

\* [dict(zip(header, row)) for row in all_values[1:]]
Records(hdr, all_values) ==
    [j \in 1..(Len(all_values) - 1) |-> Dict(hdr, all_values[j + 1])]

\* Mutant of ColumnOf: the columns are taken to stand where the usual
\* header has them.
ColumnOfUsualPlace(hdr, name) ==
    IF name = "used" THEN 3 ELSE 4

\* Mutant of ColumnOf: a name the header lacks is given the column after
\* the last.
ColumnOfOrNew(hdr, name) ==
    IF \E i \in 1..Len(hdr) : hdr[i] = name
    THEN CHOOSE i \in 1..Len(hdr) :
            hdr[i] = name /\ \A j \in 1..(i - 1) : hdr[j] # name
    ELSE Len(hdr) + 1

\* Mutant of ColumnOf: a name the header lacks is given the first column.
ColumnOfOrFirst(hdr, name) ==
    IF \E i \in 1..Len(hdr) : hdr[i] = name
    THEN CHOOSE i \in 1..Len(hdr) :
            hdr[i] = name /\ \A j \in 1..(i - 1) : hdr[j] # name
    ELSE 1

\* header.index(name) + 1, or 0 where index raises ValueError.
ColumnOf(hdr, name) ==
    IF \E i \in 1..Len(hdr) : hdr[i] = name
    THEN CHOOSE i \in 1..Len(hdr) :
            hdr[i] = name /\ \A j \in 1..(i - 1) : hdr[j] # name
    ELSE 0

\* Mutant of RowIndexOf: the header row is not counted.
RowIndexNoHeader(i) == i + 1

\* _filter_unused_items: the Row Index of the record enumerate() numbers i.
RowIndexOf(i) == i + 2

\* Mutant of Eligible: the language of the row is not looked at.
EligibleAnyLanguage(rec, lang) ==
    Upper(Get(rec, "used", "")) = "FALSE"

\* _filter_unused_items: is_unused [and lang_match]
Eligible(rec, lang) ==
    /\ Upper(Get(rec, "used", "")) = "FALSE"
    /\ lang # NoLang => Lower(Get(rec, "language", "")) = lang

RECURSIVE FilterFrom(_, _, _)
FilterFrom(records, lang, j) ==
    IF j > Len(records) THEN <<>>
    ELSE (IF Eligible(records[j], lang)
          THEN << <<RowIndexOf(j - 1), records[j]>> >>
          ELSE <<>>) \o FilterFrom(records, lang, j + 1)

\* Mutant of FilterUnusedItems: the first record is not looked at.
FilterUnusedItemsFromSecond(records, lang) == FilterFrom(records, lang, 2)

\* Mutant of FilterUnusedItems: only the first unused row is a candidate.
FilterUnusedItemsFirstOnly(records, lang) ==
    IF FilterFrom(records, lang, 1) = <<>> THEN <<>>
    ELSE << FilterFrom(records, lang, 1)[1] >>

\* _filter_unused_items(records, language)
FilterUnusedItems(records, lang) == FilterFrom(records, lang, 1)

\* Mutant of ResetUpdates: only the first matching row is reset.
ResetUpdatesFirstOnly(records, lang, used_col) ==
    LET rows == { j \in 1..Len(records) :
                    lang # NoLang
                        => Lower(Get(records[j], "language", "")) = lang }
    IN  { [row |-> (j - 1) + 2, col |-> used_col, value |-> "FALSE"] :
            j \in { r \in rows : \A r2 \in rows : r <= r2 } }

\* Mutant of ResetUpdates: every row is reset, whatever its language.
ResetUpdatesAllRows(records, lang, used_col) ==
    { [row |-> (j - 1) + 2, col |-> used_col, value |-> "FALSE"] :
        j \in 1..Len(records) }

\* Mutant of ResetUpdates: the cells right of the used column are written.
ResetUpdatesNextColumn(records, lang, used_col) ==
    { [row |-> (j - 1) + 2, col |-> used_col + 1, value |-> "FALSE"] :
        j \in { r \in 1..Len(records) :
                  lang # NoLang
                      => Lower(Get(records[r], "language", "")) = lang } }

\* _reset_used_flags, lines 210-220: the cells to write.
ResetUpdates(records, lang, used_col) ==
    { [row |-> (j - 1) + 2, col |-> used_col, value |-> "FALSE"] :
        j \in { r \in 1..Len(records) :
                  lang # NoLang
                      => Lower(Get(records[r], "language", "")) = lang } }

\* worksheet.update_cells(updates, value_input_option="USER_ENTERED")
UpdateCells(sheet, cells) ==
    [r \in 1..Len(sheet) |->
        [c \in 1..Len(sheet[r]) |->
            IF \E u \in cells : u.row = r /\ u.col = c
            THEN (CHOOSE u \in cells : u.row = r /\ u.col = c).value
            ELSE sheet[r][c]]]

\* The used cell of data row r of a sheet, as the record of the row has it.
UsedOf(sheet, r) == Get(Dict(sheet[1], sheet[r]), "used", "")

DataRows(sheet) == 2..Len(sheet)

\* datetime.now(ZoneInfo(TIMEZONE_STR)).strftime("%Y-%m-%d %H:%M:%S")
LocalStamp(t) ==
    DateStr(LocalNow(t) \div MinutesPerDay) \o " "
        \o Pad2((LocalNow(t) % MinutesPerDay) \div 60)
        \o ":" \o Pad2(LocalNow(t) % 60) \o ":00"

\* The stores a caller can meet: the header rows ...
StoreHeaders ==
    { <<"content", "language", "used", "date_used">>,
      <<"used", "date_used", "content", "language">>,
      <<"content", "language", "date_used">> }

\* ... the values of the language and used cells ...
LanguageValues == {"english", "English", "slovak"}

UsedValues == {"TRUE", "FALSE", "false"}

ContentOf(j) == "item" \o ToString(j)

\* ... and the data rows, laid out under the header.
MakeRow(hdr, content, lang, used) ==
    [i \in 1..Len(hdr) |->
        CASE hdr[i] = "content" -> content
          [] hdr[i] = "language" -> lang
          [] hdr[i] = "used" -> used
          [] OTHER -> ""]

InitialStores ==
    UNION { { <<hdr>> \o [j \in 1..n |->
                            MakeRow(hdr, ContentOf(j), langs[j], useds[j])] :
                langs \in [1..n -> LanguageValues],
                useds \in [1..n -> UsedValues] } :
            hdr \in StoreHeaders, n \in 0..MaxRows }

\* The store of the end-to-end example: three unused rows, two of them
\* english.
ScenarioStore ==
    << <<"content", "language", "used", "date_used">>,
       <<"item1", "english", "FALSE", "">>,
       <<"item2", "english", "FALSE", "">>,
       <<"item3", "slovak", "FALSE", "">> >>

\* The language a caller passes: None, or the language cell of a user row
\* as it stands in the Users sheet.
LanguageFilters == {NoLang, "english", "English"}

VARIABLES
    store,          \* the content worksheet
    spc,            \* where each caller stands
    language,       \* get_unused_item: language
    header,         \* get_unused_item / mark_item_as_used: header
    unused_items,   \* get_unused_item: unused_items
    updates,        \* _reset_used_flags / mark_item_as_used: updates
    result,         \* what get_unused_item returned
    first_values,   \* the all_values of the call's first read
    resets,         \* per call: batched reset writes done
    rereads,        \* per call: reads after a reset
    failure,        \* per call: a remote call raised
    last_mark,      \* the latest mark_item_as_used whose write succeeded,
                    \* until a reset rewrites its row
    mark_warning    \* what the latest mark_item_as_used call logged

svars == <<store, spc, language, header, unused_items, updates, result,
           first_values, resets, rereads, failure, last_mark, mark_warning>>

VARIABLES
    clock,          \* the wall clock, UTC minutes
    ledger,         \* the Jobs worksheet
    pc,             \* where each dispatcher invocation stands in main()
    now_utc,        \* main: now_utc
    today_local,    \* main: today_local
    idx,            \* main: position of the for loop in scheduled_jobs
    job_key,        \* main: job_key
    invocations,    \* number of dispatcher invocations begun
    started,        \* per job key, how often run_once.py was started
    marked,         \* job keys whose append_row succeeded
    failed,         \* job keys of the current local date whose run_once.py
                    \* exited non-zero
    mine            \* per invocation: what it has done so far

dvars == <<clock, ledger, pc, now_utc, today_local, idx, job_key,
           invocations, started, marked, failed, mine>>

VARIABLES
    rotation,       \* the rotation (category) worksheet
    payload,        \* the payload worksheet of every configured source
    rpc,            \* where the call of _get_rotating_content stands
    rot_item,       \* _get_rotating_content: (rot_idx, rot_data)
    content_item,   \* _get_rotating_content: (content_idx, content_data)
    returned,       \* what the call returned
    rot_marks,      \* the call's mark_item_as_used calls on the rotation
                    \* sheet: their row indexes
    payload_marks,  \* the same on payload sheets: (source, row index)
    payload_opens   \* the sources whose sheet the call asked to open

rvars == <<rotation, payload, rpc, rot_item, content_item, returned,
           rot_marks, payload_marks, payload_opens>>

VARIABLES
    users,          \* app_config["users"]: the active users of the run
    content_groups, \* execute: content_groups, in the order of its items()
    jpc,            \* where execute() stands
    gidx,           \* execute: position of the for loop in content_groups
    reflection,     \* execute: (reflection_text, image_url)
    outcome,        \* how the processing of each group went
    sent            \* the sends made: (group, user, kind)

jvars == <<users, content_groups, jpc, gidx, reflection, outcome, sent>>

VARIABLES
    cycle           \* the calls of one caller since the last reset

hvars == <<cycle>>

VARIABLES
    schedule        \* main: scheduled_jobs, as get_scheduled_jobs() returned it

cvars == <<schedule>>

VARIABLES
    strategy_type,  \* theme_config["type"]: the module whose process() runs
    tpc,            \* where execute() of the strategy stands
    row_item,       \* llm_static, simple_static: (row_index, item_data)
    art_item,       \* hybrid_dual_static: (self.art_idx, self.art_data)
    lang_item,      \* hybrid_dual_static: (self.lang_idx, self.lang_data)
    final_text      \* the text execute() returns; NoValue for None

tvars == <<strategy_type, tpc, row_item, art_item, lang_item, final_text>>

vars == <<dvars, svars, rvars, jvars, hvars, cvars, tvars>>

NoKey == ""

\* An invocation that has done nothing yet.
Fresh == [opened |-> FALSE, readErr |-> {}, rows |-> {}, starts |-> {}]

\* No dispatcher process is alive in slot p: none was started yet or the
\* last one returned ("idle"), or the last one left by sys.exit(1).
Resting(p) == pc[p] \in {"idle", "aborted"}

\* No mark_item_as_used has written yet.
NoMark == [row |-> 0, stamp |-> "", previous |-> ""]

\* No caller works on the store.
StoreIdle ==
    /\ spc = [w \in Callers |-> "idle"]
    /\ language = [w \in Callers |-> NoLang]
    /\ header = [w \in Callers |-> <<>>]
    /\ unused_items = [w \in Callers |-> <<>>]
    /\ updates = [w \in Callers |-> {}]
    /\ result = [w \in Callers |-> NoItem]
    /\ first_values = [w \in Callers |-> <<>>]
    /\ resets = [w \in Callers |-> 0]
    /\ rereads = [w \in Callers |-> 0]
    /\ failure = [w \in Callers |-> FALSE]
    /\ last_mark = NoMark
    /\ mark_warning = "none"

\* config.json "data_sources": the sources a category can name, each with
\* its header_text.
data_sources ==
    [quotes |-> [header_text |-> "Quote"], facts |-> [header_text |-> "Fact"]]

\* (None, None) for the two pairs, and no return yet.
NoReturn == <<>>

\* No sequence of calls is followed.
NoCycle == [lang |-> NoLang, size |-> 0, given |-> <<>>]

CycleIdle == cycle = NoCycle

\* No strategy runs.
StrategyIdle ==
    /\ strategy_type = "llm_static"
    /\ tpc = "idle"
    /\ row_item = NoItem
    /\ art_item = NoItem
    /\ lang_item = NoItem
    /\ final_text = "<None>"     \* None

\* No job run is under way.
JobIdle ==
    /\ users = <<>>
    /\ content_groups = <<>>
    /\ jpc = "idle"
    /\ gidx = 0
    /\ reflection = <<>>
    /\ outcome = <<>>
    /\ sent = {}

\* No call of _get_rotating_content has begun; the sheets hold their
\* header rows.
RotationIdle ==
    /\ rotation = << <<"content", "language", "used", "date_used">> >>
    /\ payload = [k \in DOMAIN data_sources |->
                    << <<"content", "language", "used", "date_used">> >>]
    /\ rpc = "idle"
    /\ rot_item = NoItem
    /\ content_item = NoItem
    /\ returned = NoReturn
    /\ rot_marks = {}
    /\ payload_marks = {}
    /\ payload_opens = {}

\* No dispatcher process has run; the Jobs sheet holds its header row and
\* config.json the schedule as set up.
DispatcherRestsAt(t, headers) ==
    /\ clock = t
    /\ ledger \in { <<h>> : h \in headers }
    /\ pc = [p \in Procs |-> "idle"]
    /\ now_utc = [p \in Procs |-> 0]
    /\ today_local = [p \in Procs |-> NoKey]
    /\ idx = [p \in Procs |-> 0]
    /\ job_key = [p \in Procs |-> NoKey]
    /\ invocations = 0
    /\ started = [k \in JobKeys |-> 0]
    /\ marked = {}
    /\ failed = {}
    /\ mine = [p \in Procs |-> Fresh]

DispatcherStartAt(t, headers) ==
    /\ schedule = scheduled_jobs
    /\ DispatcherRestsAt(t, headers)

DispatcherStart(headers) == DispatcherStartAt(FirstInstant, headers)

DispatcherIdle == DispatcherStart({LedgerHeader})

\* The dispatcher on a Jobs sheet with the header row as set up.
DispatcherInit ==
    /\ store = << <<"content", "language", "used", "date_used">> >>
    /\ StoreIdle
    /\ RotationIdle
    /\ JobIdle
    /\ StrategyIdle
    /\ CycleIdle
    /\ DispatcherStart({LedgerHeader})

\* The dispatcher on a Jobs sheet with any of the header rows.
DispatcherInitAnyHeader ==
    /\ store = << <<"content", "language", "used", "date_used">> >>
    /\ StoreIdle
    /\ RotationIdle
    /\ JobIdle
    /\ StrategyIdle
    /\ CycleIdle
    /\ DispatcherStart(LedgerHeaders)

\* Time passes, to one of the instants.
TickTo(instants) ==
    /\ \E t \in instants : t > clock /\ clock' = t
    /\ failed' = failed \cap TodayKeys(clock')
    /\ UNCHANGED <<ledger, pc, now_utc, today_local, idx, job_key,
                   invocations, started, marked, mine,
                   svars, rvars, jvars, hvars, cvars, tvars>>

Tick == TickTo(Instants)

\* main, lines 90-95: a new invocation (a new process, its locals unset),
\* in the first free slot; get_scheduled_jobs() yields the schedule, or {}
\* when config.json cannot be loaded, and then main returns.
Begin(p, cfgOk) ==
    /\ Resting(p)
    /\ \A q \in Procs : q < p => ~Resting(q)
    /\ invocations < MaxInvocations
    /\ invocations' = invocations + 1
    /\ pc' = [pc EXCEPT ![p] = IF cfgOk THEN "open" ELSE "idle"]
    /\ now_utc' = [now_utc EXCEPT ![p] = 0]
    /\ today_local' = [today_local EXCEPT ![p] = NoKey]
    /\ idx' = [idx EXCEPT ![p] = 0]
    /\ job_key' = [job_key EXCEPT ![p] = NoKey]
    /\ mine' = [mine EXCEPT ![p] = Fresh]
    /\ UNCHANGED <<clock, ledger, started, marked, failed,
                   svars, rvars, jvars, hvars, cvars, tvars>>

\* main, lines 104-139: open the log sheet and validate its header row;
\* sys.exit(1) when the sheet cannot be opened, row_values(1) raises or a
\* required header is missing.
OpenLedger(p, openOk, readOk) ==
    /\ pc[p] = "open"
    /\ LET good == openOk /\ readOk /\ HeadersValid(RowValues(ledger, 1))
       IN  /\ pc' = [pc EXCEPT ![p] = IF good THEN "now" ELSE "aborted"]
           /\ mine' = [mine EXCEPT ![p].opened = openOk /\ readOk]
    /\ UNCHANGED <<clock, ledger, now_utc, today_local, idx, job_key,
                   invocations, started, marked, failed,
                   svars, rvars, jvars, hvars, cvars, tvars>>

\* main, line 141: now_utc = datetime.now(timezone.utc)
ReadNowUtc(p) ==
    /\ pc[p] = "now"
    /\ now_utc' = [now_utc EXCEPT ![p] = clock]
    /\ pc' = [pc EXCEPT ![p] = "today"]
    /\ UNCHANGED <<clock, ledger, today_local, idx, job_key, invocations,
                   started, marked, failed, mine,
                   svars, rvars, jvars, hvars, cvars, tvars>>

\* main, line 142: today_local = datetime.now(target_tz).strftime(...)
ReadTodayLocal(p) ==
    /\ pc[p] = "today"
    /\ today_local' = [today_local EXCEPT ![p] = TodayLocal(clock)]
    /\ idx' = [idx EXCEPT ![p] = 1]
    /\ pc' = [pc EXCEPT ![p] = "loop"]
    /\ UNCHANGED <<clock, ledger, now_utc, job_key, invocations, started,
                   marked, failed, mine,
                   svars, rvars, jvars, hvars, cvars, tvars>>

\* main, lines 144-156: one turn of the for loop up to the window test.
Evaluate(p) ==
    /\ pc[p] = "loop"
    /\ idx[p] <= Len(SlotOrder)
    /\ LET time_key == SlotOrder[idx[p]]
           hm == schedule[time_key]
           diff == TimeDiffMinutes(now_utc[p], clock, hm)
       IN  IF ScheduleRaises(hm)
           THEN /\ idx' = [idx EXCEPT ![p] = NextAfterError(@)]
                /\ UNCHANGED <<job_key, pc>>
           ELSE
           IF InWindow(diff)
           THEN /\ job_key' = [job_key EXCEPT
                                 ![p] = JobKey(time_key, today_local[p])]
                /\ pc' = [pc EXCEPT ![p] = "check"]
                /\ idx' = idx
           ELSE /\ idx' = [idx EXCEPT ![p] = @ + 1]
                /\ UNCHANGED <<job_key, pc,
                   svars, rvars, jvars, hvars, cvars, tvars>>
    /\ UNCHANGED <<clock, ledger, now_utc, today_local, invocations, started,
                   marked, failed, mine,
                   svars, rvars, jvars, hvars, cvars, tvars>>

\* check_if_job_ran, lines 54-74, and the test of main, line 158: on True
\* the loop goes on with the next slot, on False main calls
\* mark_job_as_triggered.
CheckIfJobRan(p, readOk) ==
    /\ pc[p] = "check"
    /\ LET col == IF readOk THEN ColValues(ledger, 1) ELSE <<>>
           res == CheckResult(readOk, col, job_key[p])
       IN  /\ pc' = [pc EXCEPT ![p] = IF res THEN "loop" ELSE "mark"]
           /\ idx' = [idx EXCEPT ![p] = IF res THEN @ + 1 ELSE @]
           /\ job_key' = [job_key EXCEPT ![p] = IF res THEN NoKey ELSE @]
           /\ mine' = [mine EXCEPT ![p].readErr =
                         IF readOk THEN @ ELSE @ \cup {job_key[p]}]
    /\ UNCHANGED <<clock, ledger, now_utc, today_local, invocations, started,
                   marked, failed,
                   svars, rvars, jvars, hvars, cvars, tvars>>

\* mark_job_as_triggered, lines 77-85, called from main, line 159.
MarkJobAsTriggered(p, appendOk) ==
    /\ pc[p] = "mark"
    /\ ledger' = MarkResult(ledger, appendOk, job_key[p], clock)
    /\ marked' = IF appendOk THEN marked \cup {job_key[p]} ELSE marked
    /\ mine' = [mine EXCEPT ![p].rows =
                  IF appendOk THEN @ \cup {job_key[p]} ELSE @]
    /\ pc' = [pc EXCEPT ![p] = "run"]
    /\ UNCHANGED <<clock, now_utc, today_local, idx, job_key, invocations,
                   started, failed,
                   svars, rvars, jvars, hvars, cvars, tvars>>

\* main, line 163: subprocess.run starts run_once.py for the slot.
StartJob(p) ==
    /\ pc[p] = "run"
    /\ started' = [started EXCEPT ![job_key[p]] = @ + 1]
    /\ mine' = [mine EXCEPT ![p].starts = @ \cup {job_key[p]}]
    /\ pc' = [pc EXCEPT ![p] = "running"]
    /\ UNCHANGED <<clock, ledger, now_utc, today_local, idx, job_key,
                   invocations, marked, failed,
                   svars, rvars, jvars, hvars, cvars, tvars>>

\* main, lines 163-170: run_once.py exits; a non-zero exit raises
\* CalledProcessError, which the except of the loop body logs.  Either way
\* the loop goes on with the next slot.
JobExit(p, rc) ==
    /\ pc[p] = "running"
    /\ failed' = (IF rc # 0 THEN failed \cup {job_key[p]} ELSE failed)
                   \cap TodayKeys(clock)
    /\ idx' = [idx EXCEPT ![p] = IF rc # 0 THEN NextAfterError(@) ELSE @ + 1]
    /\ job_key' = [job_key EXCEPT ![p] = NoKey]
    /\ pc' = [pc EXCEPT ![p] = "loop"]
    /\ UNCHANGED <<clock, ledger, now_utc, today_local, invocations, started,
                   marked, mine,
                   svars, rvars, jvars, hvars, cvars, tvars>>

\* main, line 172: the loop is over and the process ends.
Finish(p) ==
    /\ pc[p] = "loop"
    /\ idx[p] > Len(SlotOrder)
    /\ pc' = [pc EXCEPT ![p] = "idle"]
    /\ now_utc' = [now_utc EXCEPT ![p] = 0]
    /\ today_local' = [today_local EXCEPT ![p] = NoKey]
    /\ idx' = [idx EXCEPT ![p] = 0]
    /\ mine' = [mine EXCEPT ![p] = Fresh]
    /\ UNCHANGED <<clock, ledger, job_key, invocations, started, marked,
                   failed,
                   svars, rvars, jvars, hvars, cvars, tvars>>

Next ==
    \/ Tick
    \/ \E p \in Procs, ok \in BOOLEAN : Begin(p, ok)
    \/ \E p \in Procs, openOk \in BOOLEAN, readOk \in BOOLEAN :
          OpenLedger(p, openOk, readOk)
    \/ \E p \in Procs : ReadNowUtc(p)
    \/ \E p \in Procs : ReadTodayLocal(p)
    \/ \E p \in Procs : Evaluate(p)
    \/ \E p \in Procs, ok \in BOOLEAN : CheckIfJobRan(p, ok)
    \/ \E p \in Procs, ok \in BOOLEAN : MarkJobAsTriggered(p, ok)
    \/ \E p \in Procs : StartJob(p)
    \/ \E p \in Procs, rc \in {0, 1} : JobExit(p, rc)
    \/ \E p \in Procs : Finish(p)

Spec == DispatcherInit /\ [][Next]_vars

\* Invocations one after the other (no process begins while another is
\* alive) and every remote call succeeds; run_once.py may still fail.
Solo(p) == \A q \in Procs : q # p => Resting(q)

NextSeq ==
    \/ Tick
    \/ \E p \in Procs : Solo(p) /\ Begin(p, TRUE)
    \/ \E p \in Procs : OpenLedger(p, TRUE, TRUE)
    \/ \E p \in Procs : ReadNowUtc(p)
    \/ \E p \in Procs : ReadTodayLocal(p)
    \/ \E p \in Procs : Evaluate(p)
    \/ \E p \in Procs : CheckIfJobRan(p, TRUE)
    \/ \E p \in Procs : MarkJobAsTriggered(p, TRUE)
    \/ \E p \in Procs : StartJob(p)
    \/ \E p \in Procs, rc \in {0, 1} : JobExit(p, rc)
    \/ \E p \in Procs : Finish(p)

SpecSeq == DispatcherInitAnyHeader /\ [][NextSeq]_vars

\* Invocations one after the other; remote calls may fail.
NextSolo ==
    \/ Tick
    \/ \E p \in Procs, ok \in BOOLEAN : Solo(p) /\ Begin(p, ok)
    \/ \E p \in Procs, openOk \in BOOLEAN, readOk \in BOOLEAN :
          OpenLedger(p, openOk, readOk)
    \/ \E p \in Procs : ReadNowUtc(p)
    \/ \E p \in Procs : ReadTodayLocal(p)
    \/ \E p \in Procs : Evaluate(p)
    \/ \E p \in Procs, ok \in BOOLEAN : CheckIfJobRan(p, ok)
    \/ \E p \in Procs, ok \in BOOLEAN : MarkJobAsTriggered(p, ok)
    \/ \E p \in Procs : StartJob(p)
    \/ \E p \in Procs, rc \in {0, 1} : JobExit(p, rc)
    \/ \E p \in Procs : Finish(p)

SpecSolo == DispatcherInitAnyHeader /\ [][NextSolo]_vars

\* Invocations one after the other over a config.json whose schedule may
\* hold strings that are no times; remote calls may fail.
ScheduleInit ==
    /\ store = << <<"content", "language", "used", "date_used">> >>
    /\ StoreIdle
    /\ RotationIdle
    /\ JobIdle
    /\ StrategyIdle
    /\ CycleIdle
    /\ schedule \in Schedules
    /\ DispatcherRestsAt(FirstInstant, {LedgerHeader})

SpecSchedule == ScheduleInit /\ [][NextSolo]_vars

\* Invocations one after the other, every remote call succeeding, while
\* the clock passes the edges of the windows.
WindowInit ==
    /\ store = << <<"content", "language", "used", "date_used">> >>
    /\ StoreIdle
    /\ RotationIdle
    /\ JobIdle
    /\ StrategyIdle
    /\ CycleIdle
    /\ DispatcherStartAt(FirstWindowInstant, {LedgerHeader})

NextWindow ==
    \/ TickTo(WindowInstants)
    \/ \E p \in Procs : Solo(p) /\ Begin(p, TRUE)
    \/ \E p \in Procs : OpenLedger(p, TRUE, TRUE)
    \/ \E p \in Procs : ReadNowUtc(p)
    \/ \E p \in Procs : ReadTodayLocal(p)
    \/ \E p \in Procs : Evaluate(p)
    \/ \E p \in Procs : CheckIfJobRan(p, TRUE)
    \/ \E p \in Procs : MarkJobAsTriggered(p, TRUE)
    \/ \E p \in Procs : StartJob(p)
    \/ \E p \in Procs, rc \in {0, 1} : JobExit(p, rc)
    \/ \E p \in Procs : Finish(p)

SpecWindow == WindowInit /\ [][NextWindow]_vars

(***************************************************************************)
(* The selection store: get_unused_item and mark_item_as_used, one remote  *)
(* call per step.                                                          *)
(***************************************************************************)
StoreInit ==
    /\ store \in InitialStores \cup {ScenarioStore}
    /\ StoreIdle
    /\ RotationIdle
    /\ JobIdle
    /\ StrategyIdle
    /\ CycleIdle
    /\ DispatcherIdle

\* The caller's locals once a call is over.
Forget(w) ==
    /\ language' = [language EXCEPT ![w] = NoLang]
    /\ header' = [header EXCEPT ![w] = <<>>]
    /\ unused_items' = [unused_items EXCEPT ![w] = <<>>]
    /\ updates' = [updates EXCEPT ![w] = {}]
    /\ result' = [result EXCEPT ![w] = NoItem]
    /\ first_values' = [first_values EXCEPT ![w] = <<>>]
    /\ resets' = [resets EXCEPT ![w] = 0]
    /\ rereads' = [rereads EXCEPT ![w] = 0]
    /\ failure' = [failure EXCEPT ![w] = FALSE]

\* get_unused_item returns (None, None), raised(TRUE) after an exception.
ReturnNone(w, raised) ==
    /\ result' = [result EXCEPT ![w] = NoItem]
    /\ failure' = [failure EXCEPT ![w] = raised]
    /\ spc' = [spc EXCEPT ![w] = "returned"]

\* get_worksheet: None when there is no authorized client or the
\* spreadsheet or the worksheet cannot be opened, the worksheet otherwise.
GetWorksheet(clientOk, openOk) ==
    IF clientOk /\ openOk THEN "worksheet" ELSE "None"

\* A caller asks get_worksheet for the store and gives up on None.
OpenStore(w, clientOk, openOk) ==
    /\ spc[w] = "idle"
    /\ spc' = [spc EXCEPT ![w] =
                 IF GetWorksheet(clientOk, openOk) = "None"
                 THEN "unopened" ELSE "opened"]
    /\ UNCHANGED <<store, language, header, unused_items, updates, result,
                   first_values, resets, rereads, failure, last_mark,
                   mark_warning, dvars, rvars, jvars, hvars, cvars, tvars>>

\* The caller calls get_unused_item(worksheet, lang).
CallGet(w, lang) ==
    /\ spc[w] = "opened"
    /\ spc' = [spc EXCEPT ![w] = "read"]
    /\ language' = [language EXCEPT ![w] = lang]
    /\ UNCHANGED <<store, header, unused_items, updates, result,
                   first_values, resets, rereads, failure, last_mark,
                   mark_warning, dvars, rvars, jvars, hvars, cvars, tvars>>

\* get_unused_item, lines 111-121: the first read and the filter.
GetRead(w, ok) ==
    /\ spc[w] = "read"
    /\ IF ~ok \/ Len(store) < 2
       THEN /\ ReturnNone(w, ~ok)
            /\ UNCHANGED <<header, unused_items, first_values>>
       ELSE LET found == FilterUnusedItems(Records(store[1], store),
                                           language[w])
            IN  /\ header' = [header EXCEPT ![w] = store[1]]
                /\ first_values' = [first_values EXCEPT ![w] = store]
                /\ unused_items' = [unused_items EXCEPT ![w] = found]
                /\ spc' = [spc EXCEPT ![w] =
                             IF found # <<>> THEN "choose" ELSE "reset_read"]
                /\ UNCHANGED <<result, failure>>
    /\ UNCHANGED <<store, language, updates, resets, rereads, last_mark,
                   mark_warning, dvars, rvars, jvars, hvars, cvars, tvars>>

\* _reset_used_flags, lines 201-221: its own read and the cells to reset;
\* it returns False, and get_unused_item (None, None), when the read
\* raises, the sheet has no data row, the header has no "used" or no row
\* matches.
ResetRead(w, ok) ==
    /\ spc[w] = "reset_read"
    /\ LET used_col == ColumnOf(store[1], "used")
           cells == ResetUpdates(Records(store[1], store), language[w],
                                 used_col)
       IN  IF ~ok \/ Len(store) < 2 \/ used_col = 0 \/ cells = {}
           THEN /\ ReturnNone(w, ~ok)
                /\ UNCHANGED updates
           ELSE /\ updates' = [updates EXCEPT ![w] = cells]
                /\ spc' = [spc EXCEPT ![w] = "reset_write"]
                /\ UNCHANGED <<result, failure>>
    /\ UNCHANGED <<store, language, header, unused_items, first_values,
                   resets, rereads, last_mark, mark_warning, dvars, rvars, jvars, hvars, cvars, tvars>>

\* _reset_used_flags, lines 222-225: the batched write.
ResetCells(w, ok) ==
    /\ spc[w] = "reset_write"
    /\ IF ok
       THEN /\ store' = UpdateCells(store, updates[w])
            /\ resets' = [resets EXCEPT ![w] = @ + 1]
            /\ spc' = [spc EXCEPT ![w] = "reread"]
            /\ last_mark' = IF \E u \in updates[w] : u.row = last_mark.row
                            THEN NoMark ELSE last_mark
            /\ UNCHANGED <<result, failure>>
       ELSE /\ ReturnNone(w, TRUE)
            /\ UNCHANGED <<store, resets, last_mark>>
    /\ UNCHANGED <<language, header, unused_items, updates, first_values,
                   rereads, mark_warning, dvars, rvars, jvars>>

ResetWrite(w, ok) == ResetCells(w, ok) /\ UNCHANGED <<hvars, cvars, tvars>>

\* get_unused_item, lines 124-133: the read after the reset, filtered
\* under the header of the first read.
Reread(w, ok) ==
    /\ spc[w] = "reread"
    /\ rereads' = [rereads EXCEPT ![w] = @ + 1]
    /\ LET found == FilterUnusedItems(Records(header[w], store), language[w])
       IN  IF ~ok \/ found = <<>>
           THEN /\ ReturnNone(w, ~ok)
                /\ UNCHANGED unused_items
           ELSE /\ unused_items' = [unused_items EXCEPT ![w] = found]
                /\ spc' = [spc EXCEPT ![w] = "choose"]
                /\ UNCHANGED <<result, failure>>
    /\ UNCHANGED <<store, language, header, updates, first_values, resets,
                   last_mark, mark_warning, dvars, rvars, jvars, hvars, cvars, tvars>>

\* get_unused_item, line 135: random.choice(unused_items)
ChooseItem(w) ==
    /\ spc[w] = "choose"
    /\ \E j \in 1..Len(unused_items[w]) :
          result' = [result EXCEPT ![w] = unused_items[w][j]]
    /\ spc' = [spc EXCEPT ![w] = "returned"]
    /\ UNCHANGED <<store, language, header, unused_items, updates,
                   first_values, resets, rereads, failure, last_mark,
                   mark_warning, dvars, rvars, jvars>>

Choose(w) == ChooseItem(w) /\ UNCHANGED <<hvars, cvars, tvars>>

\* Mutant of MarkUpdates: the mark moves on, the row above is cleared.
MarkUpdatesClearsRowAbove(row_index, used_col, date_used_col, now_str) ==
    { [row |-> row_index, col |-> used_col, value |-> "TRUE"],
      [row |-> row_index, col |-> date_used_col, value |-> now_str],
      [row |-> row_index - 1, col |-> used_col, value |-> "FALSE"] }

\* Mutant of MarkUpdates: the row above is marked.
MarkUpdatesRowAbove(row_index, used_col, date_used_col, now_str) ==
    { [row |-> row_index - 1, col |-> used_col, value |-> "TRUE"],
      [row |-> row_index - 1, col |-> date_used_col, value |-> now_str] }

\* Mutant of MarkUpdates: the date is written, the used cell is not.
MarkUpdatesDateOnly(row_index, used_col, date_used_col, now_str) ==
    { [row |-> row_index, col |-> date_used_col, value |-> now_str] }

\* Mutant of MarkUpdates: the used cell is written, the date is not.
MarkUpdatesUsedOnly(row_index, used_col, date_used_col, now_str) ==
    { [row |-> row_index, col |-> used_col, value |-> "TRUE"] }

\* mark_item_as_used, lines 154-157: the two cells of the batched write.
MarkUpdates(row_index, used_col, date_used_col, now_str) ==
    { [row |-> row_index, col |-> used_col, value |-> "TRUE"],
      [row |-> row_index, col |-> date_used_col, value |-> now_str] }

\* mark_item_as_used(worksheet, row_index), lines 148-157: the timestamp,
\* the header read and the two cells; a warning and no write when the
\* read raises (line 165) or a column is missing (line 161).
MarkStep(w, row_index, ok) ==
    LET used_col == ColumnOf(store[1], "used")
        date_used_col == ColumnOf(store[1], "date_used")
    IN  IF ~ok \/ used_col = 0 \/ date_used_col = 0
        THEN /\ spc' = [spc EXCEPT ![w] = "idle"]
             /\ mark_warning' = IF ok THEN "missing_column" ELSE "failed"
             /\ Forget(w)
        ELSE /\ spc' = [spc EXCEPT ![w] = "mark_write"]
             /\ mark_warning' = "none"
             /\ header' = [header EXCEPT ![w] = store[1]]
             /\ updates' = [updates EXCEPT ![w] =
                   MarkUpdates(row_index, used_col, date_used_col,
                               LocalStamp(clock))]
             /\ UNCHANGED <<language, unused_items, result, first_values,
                            resets, rereads, failure>>

\* mark_item_as_used called with the Row Index get_unused_item returned.
MarkRead(w, ok) ==
    /\ spc[w] = "returned"
    /\ result[w] # NoItem
    /\ MarkStep(w, result[w][1], ok)
    /\ UNCHANGED <<store, last_mark, dvars, rvars, jvars, hvars, cvars, tvars>>

\* mark_item_as_used called with a Row Index the caller has kept.
MarkKept(w, row_index, ok) ==
    /\ spc[w] = "idle"
    /\ row_index \in 2..Len(store)
    /\ MarkStep(w, row_index, ok)
    /\ UNCHANGED <<store, last_mark, dvars, rvars, jvars, hvars, cvars, tvars>>

\* The mark a write of the cells leaves behind: its row, its timestamp and
\* the date_used value it replaced.
MarkOf(sheet, cells) ==
    LET u == CHOOSE u \in cells : u.value # "TRUE"
    IN  [row |-> u.row, stamp |-> u.value, previous |-> sheet[u.row][u.col]]

\* mark_item_as_used, lines 158-165: the batched write of the two cells.
MarkWrite(w, ok) ==
    /\ spc[w] = "mark_write"
    /\ store' = IF ok THEN UpdateCells(store, updates[w]) ELSE store
    /\ last_mark' = IF ok THEN MarkOf(store, updates[w]) ELSE last_mark
    /\ mark_warning' = IF ok THEN "none" ELSE "failed"
    /\ spc' = [spc EXCEPT ![w] = "idle"]
    /\ Forget(w)
    /\ UNCHANGED <<dvars, rvars, jvars, hvars, cvars, tvars>>

\* The caller goes on without marking (there is no worksheet, nothing was
\* returned, or its own work failed before the mark).
Leave(w) ==
    /\ spc[w] \in {"returned", "unopened"}
    /\ spc' = [spc EXCEPT ![w] = "idle"]
    /\ Forget(w)
    /\ UNCHANGED <<store, last_mark, mark_warning, dvars, rvars, jvars, hvars, cvars, tvars>>

\* One caller at a time.
Alone(w) == \A v \in Callers : v # w => spc[v] = "idle"

StoreNext ==
    \/ \E w \in Callers, clientOk \in BOOLEAN, openOk \in BOOLEAN :
          /\ Alone(w)
          /\ \A v \in Callers : v < w => spc[v] # "idle"
          /\ OpenStore(w, clientOk, openOk)
    \/ \E w \in Callers, lang \in LanguageFilters : CallGet(w, lang)
    \/ \E w \in Callers, ok \in BOOLEAN : GetRead(w, ok)
    \/ \E w \in Callers, ok \in BOOLEAN : ResetRead(w, ok)
    \/ \E w \in Callers, ok \in BOOLEAN : ResetWrite(w, ok)
    \/ \E w \in Callers, ok \in BOOLEAN : Reread(w, ok)
    \/ \E w \in Callers : Choose(w)
    \/ \E w \in Callers, ok \in BOOLEAN : MarkRead(w, ok)
    \/ \E w \in Callers, ok \in BOOLEAN : MarkWrite(w, ok)
    \/ \E w \in Callers : Leave(w)

SpecStore == StoreInit /\ [][StoreNext]_vars

\* The stores two processes share: rows of one language, used or not; both
\* processes ask for rows of any language.
RaceStores ==
    UNION { { << <<"content", "language", "used", "date_used">> >>
                \o [j \in 1..n |->
                      <<ContentOf(j), "english", useds[j], "">>] :
                useds \in [1..n -> {"TRUE", "FALSE"}] } :
            n \in 0..MaxRows }

RaceInit ==
    /\ store \in RaceStores
    /\ StoreIdle
    /\ RotationIdle
    /\ JobIdle
    /\ StrategyIdle
    /\ CycleIdle
    /\ DispatcherIdle

\* Two processes on the same store, each calling get_unused_item and then
\* mark_item_as_used; nothing orders the steps of one against the other's.
RaceNext ==
    \/ \E w \in Callers, clientOk \in BOOLEAN, openOk \in BOOLEAN :
          OpenStore(w, clientOk, openOk)
    \/ \E w \in Callers : CallGet(w, NoLang)
    \/ \E w \in Callers, ok \in BOOLEAN : GetRead(w, ok)
    \/ \E w \in Callers, ok \in BOOLEAN : ResetRead(w, ok)
    \/ \E w \in Callers, ok \in BOOLEAN : ResetWrite(w, ok)
    \/ \E w \in Callers, ok \in BOOLEAN : Reread(w, ok)
    \/ \E w \in Callers : Choose(w)
    \/ \E w \in Callers, ok \in BOOLEAN : MarkRead(w, ok)
    \/ \E w \in Callers, ok \in BOOLEAN : MarkWrite(w, ok)
    \/ \E w \in Callers : Leave(w)

SpecStoreRace == RaceInit /\ [][RaceNext]_vars

\* The rows of sheet that get_unused_item(sheet, lang) would find unused.
UnusedMatching(sheet, lang) ==
    IF Len(sheet) < 2 THEN {}
    ELSE { FilterUnusedItems(Records(sheet[1], sheet), lang)[j][1] :
             j \in 1..Len(FilterUnusedItems(Records(sheet[1], sheet), lang)) }

\* One caller that always asks with the same language filter and marks
\* what it gets, every remote call succeeding.
CycleInit ==
    /\ store \in InitialStores \cup {ScenarioStore}
    /\ StoreIdle
    /\ RotationIdle
    /\ JobIdle
    /\ StrategyIdle
    /\ DispatcherIdle
    /\ \E lang \in LanguageFilters :
          cycle = [lang |-> lang,
                   size |-> Cardinality(UnusedMatching(store, lang)),
                   given |-> <<>>]

CycleNext ==
    \/ OpenStore(1, TRUE, TRUE) /\ UNCHANGED <<hvars, cvars, tvars>>
    \/ CallGet(1, cycle.lang) /\ UNCHANGED <<hvars, cvars, tvars>>
    \/ GetRead(1, TRUE) /\ UNCHANGED <<hvars, cvars, tvars>>
    \/ ResetRead(1, TRUE) /\ UNCHANGED <<hvars, cvars, tvars>>
    \/ /\ ResetCells(1, TRUE)
       /\ cycle' = [cycle EXCEPT
                      !.size = Cardinality(UnusedMatching(store', cycle.lang)),
                      !.given = <<>>]
       /\ UNCHANGED <<cvars, tvars>>
    \/ Reread(1, TRUE) /\ UNCHANGED <<hvars, cvars, tvars>>
    \/ /\ ChooseItem(1)
       /\ cycle' = [cycle EXCEPT !.given = Append(@, result'[1][1])]
       /\ UNCHANGED <<cvars, tvars>>
    \/ MarkRead(1, TRUE) /\ UNCHANGED <<hvars, cvars, tvars>>
    \/ MarkWrite(1, TRUE) /\ UNCHANGED <<hvars, cvars, tvars>>
    \/ result[1] = NoItem /\ Leave(1)

SpecCycle == CycleInit /\ [][CycleNext]_vars

\* The stores mark_item_as_used can meet: the header rows of the selection
\* stores and one without date_used; the rows of one language, with any
\* used value.
MarkHeaders == StoreHeaders \cup { <<"content", "language", "used">> }

MarkStores ==
    UNION { { <<hdr>> \o [j \in 1..n |->
                            MakeRow(hdr, ContentOf(j), "english", useds[j])] :
                useds \in [1..n -> UsedValues] } :
            hdr \in MarkHeaders, n \in 0..MaxRows }

MarkInit ==
    /\ store \in MarkStores
    /\ StoreIdle
    /\ RotationIdle
    /\ JobIdle
    /\ StrategyIdle
    /\ CycleIdle
    /\ DispatcherIdle

\* Calls of mark_item_as_used with Row Indexes the callers kept, one call
\* at a time, while the clock goes on.
MarkNext ==
    \/ Tick
    \/ \E w \in Callers, row_index \in 2..(MaxRows + 1), ok \in BOOLEAN :
          /\ Alone(w)
          /\ \A v \in Callers : v < w => spc[v] # "idle"
          /\ MarkKept(w, row_index, ok)
    \/ \E w \in Callers, ok \in BOOLEAN : MarkWrite(w, ok)

SpecMark == MarkInit /\ [][MarkNext]_vars

(***************************************************************************)
(* Rotating content: _get_rotating_content on a rotation sheet and the     *)
(* payload sheets, one call of the selection store per step.               *)
(***************************************************************************)
MaxCategories == 2

\* The content cells of a rotation sheet: a configured source, an empty
\* cell, a name that data_sources does not have.
CategoryContents == {"quotes", "facts", "", "recipes"}

RotationSheets ==
    UNION { { << <<"content", "language", "used", "date_used">> >>
                \o [j \in 1..n |-> <<contents[j], "", useds[j], "">>] :
                contents \in [1..n -> CategoryContents],
                useds \in [1..n -> {"TRUE", "FALSE"}] } :
            n \in 0..MaxCategories }

\* A payload sheet: no data row, or one.
PayloadSheets ==
    { << <<"content", "language", "used", "date_used">> >> }
      \cup { << <<"content", "language", "used", "date_used">>,
                <<"text", "", used, "">> >> : used \in {"TRUE", "FALSE"} }

\* Mutant of GetUnusedOutcomes: any data row is returned, used or not.
GetUnusedOutcomesAnyRow(sheet, lang) ==
    { [sheet |-> sheet, item |-> NoItem, raised |-> TRUE] }
      \cup { [sheet |-> sheet,
              item |-> <<r, Dict(sheet[1], sheet[r])>>,
              raised |-> FALSE] :
                r \in 2..Len(sheet) }

\* Mutant of GetUnusedOutcomes: an exhausted sheet is not reset.
GetUnusedOutcomesNoReset(sheet, lang) ==
    LET found == IF Len(sheet) < 2 THEN <<>>
                 ELSE FilterUnusedItems(Records(sheet[1], sheet), lang)
    IN  { [sheet |-> sheet, item |-> NoItem, raised |-> TRUE] }
          \cup (IF found = <<>>
                THEN { [sheet |-> sheet, item |-> NoItem, raised |-> FALSE] }
                ELSE { [sheet |-> sheet, item |-> found[j],
                        raised |-> FALSE] : j \in 1..Len(found) })

\* get_unused_item(sheet, lang) as one step: the sheet it leaves and the
\* pair it returns, for every way its remote calls can go; raised tells
\* that one of them raised (the except clause of line 136, or the one of
\* _reset_used_flags, line 231).
GetUnusedOutcomes(sheet, lang) ==
    LET out(sh, it, r) == [sheet |-> sh, item |-> it, raised |-> r]
        found == FilterUnusedItems(Records(sheet[1], sheet), lang)
        used_col == ColumnOf(sheet[1], "used")
        cells == ResetUpdates(Records(sheet[1], sheet), lang, used_col)
        after == UpdateCells(sheet, cells)
        again == FilterUnusedItems(Records(sheet[1], after), lang)
    IN  {out(sheet, NoItem, TRUE)}
          \cup (IF Len(sheet) < 2 THEN {out(sheet, NoItem, FALSE)}
                ELSE IF found # <<>>
                THEN { out(sheet, found[j], FALSE) : j \in 1..Len(found) }
                ELSE IF used_col = 0 \/ cells = {}
                THEN {out(sheet, NoItem, FALSE)}
                ELSE {out(after, NoItem, TRUE)}
                       \cup (IF again = <<>>
                             THEN {out(after, NoItem, FALSE)}
                             ELSE { out(after, again[j], FALSE) :
                                      j \in 1..Len(again) }))

\* The outcomes of a call none of whose remote calls raised.
Succeeding(outcomes) == { o \in outcomes : ~o.raised }

\* Mutant of MarkOutcomes: every data row is marked.
MarkOutcomesAllRows(sheet, row_index, now_str) ==
    { [r \in 1..Len(sheet) |->
         IF r = 1 THEN sheet[r]
         ELSE [c \in 1..Len(sheet[r]) |->
                 IF sheet[1][c] = "used" THEN "TRUE" ELSE sheet[r][c]]] }

\* mark_item_as_used(sheet, row_index) as one step: the sheets it can
\* leave.
MarkOutcomes(sheet, row_index, now_str) ==
    LET used_col == ColumnOf(sheet[1], "used")
        date_used_col == ColumnOf(sheet[1], "date_used")
    IN  {sheet}
          \cup (IF used_col = 0 \/ date_used_col = 0 THEN {}
                ELSE { UpdateCells(sheet,
                          MarkUpdates(row_index, used_col, date_used_col,
                                      now_str)) })

\* Mutant of RotationErrorPair: the empty pair of the other early returns.
RotationErrorPairEmpty == <<"", "">>

\* The fallback bodies of _get_rotating_content (lines 145, 162, 168),
\* without their diacritics.
RotationErrorPair == <<"Chyba", "Nepodarilo sa nacitat typ obsahu.">>

UnavailableBody == "Obsah pre tuto temu nie je dostupny."

ExhaustedBody == "Vsetok obsah pre tuto kategoriu sa vycerpal."

\* content_type_key = rot_data.get("content")
ContentTypeKey(item) == Get(item[2], "content", "")

\* The call returns pair.
RotReturn(pair) ==
    /\ rpc' = "done"
    /\ returned' = pair

RotationInit ==
    /\ store = << <<"content", "language", "used", "date_used">> >>
    /\ StoreIdle
    /\ DispatcherIdle
    /\ JobIdle
    /\ StrategyIdle
    /\ CycleIdle
    /\ rotation \in RotationSheets
    /\ payload \in [DOMAIN data_sources -> PayloadSheets]
    /\ rpc = "idle"
    /\ rot_item = NoItem
    /\ content_item = NoItem
    /\ returned = NoReturn
    /\ rot_marks = {}
    /\ payload_marks = {}
    /\ payload_opens = {}

\* _get_rotating_content, lines 131-141: the rotation source is looked up
\* and its sheet opened.
RotOpen(configured, opened) ==
    /\ rpc = "idle"
    /\ rot_item' = NoItem
    /\ content_item' = NoItem
    /\ rot_marks' = {}
    /\ payload_marks' = {}
    /\ payload_opens' = {}
    /\ IF configured /\ opened
       THEN rpc' = "select" /\ returned' = NoReturn
       ELSE RotReturn(<<"", "">>)
    /\ UNCHANGED <<rotation, payload, dvars, svars, jvars, hvars, cvars, tvars>>

\* _get_rotating_content, lines 142-149: the category row is selected and
\* its content value read.
RotSelectFrom(outcomes) ==
    /\ rpc = "select"
    /\ \E o \in outcomes :
          /\ rotation' = o.sheet
          /\ rot_item' = o.item
          /\ IF o.item = NoItem
             THEN RotReturn(RotationErrorPair)
             ELSE IF ContentTypeKey(o.item) = ""
             THEN RotReturn(<<"", "">>)
             ELSE rpc' = "mark" /\ UNCHANGED returned
    /\ UNCHANGED <<payload, content_item, rot_marks, payload_marks,
                   payload_opens, dvars, svars, jvars, hvars, cvars, tvars>>

RotSelect == RotSelectFrom(GetUnusedOutcomes(rotation, NoLang))

\* _get_rotating_content, lines 150-155: the category row is marked and
\* the source of its content value looked up.
RotMark ==
    /\ rpc = "mark"
    /\ rotation' \in MarkOutcomes(rotation, rot_item[1], LocalStamp(clock))
    /\ rot_marks' = rot_marks \cup {rot_item[1]}
    /\ IF ContentTypeKey(rot_item) \in DOMAIN data_sources
       THEN rpc' = "open" /\ UNCHANGED returned
       ELSE RotReturn(<<"", "">>)
    /\ UNCHANGED <<payload, rot_item, content_item, payload_marks,
                   payload_opens, dvars, svars, jvars, hvars, cvars, tvars>>

\* _get_rotating_content, lines 157-162: the payload sheet is opened.
RotOpenPayload(opened) ==
    /\ rpc = "open"
    /\ payload_opens' = payload_opens \cup {ContentTypeKey(rot_item)}
    /\ IF opened
       THEN rpc' = "draw" /\ UNCHANGED returned
       ELSE RotReturn(<<data_sources[ContentTypeKey(rot_item)].header_text,
                        UnavailableBody>>)
    /\ UNCHANGED <<rotation, payload, rot_item, content_item, rot_marks,
                   payload_marks, dvars, svars, jvars, hvars, cvars, tvars>>

\* _get_rotating_content, lines 164-168: the payload row is selected.
RotDrawFrom(outcomes) ==
    /\ rpc = "draw"
    /\ LET key == ContentTypeKey(rot_item)
       IN  \E o \in outcomes :
             /\ payload' = [payload EXCEPT ![key] = o.sheet]
             /\ content_item' = o.item
             /\ IF o.item = NoItem
                THEN RotReturn(<<data_sources[key].header_text,
                                 ExhaustedBody>>)
                ELSE rpc' = "mark_payload" /\ UNCHANGED returned
    /\ UNCHANGED <<rotation, rot_item, rot_marks, payload_marks,
                   payload_opens, dvars, svars, jvars, hvars, cvars, tvars>>

RotDraw ==
    RotDrawFrom(GetUnusedOutcomes(payload[ContentTypeKey(rot_item)], NoLang))

\* _get_rotating_content, lines 170-172: the payload row is marked and its
\* content returned under the header text of the source.
RotMarkPayload ==
    /\ rpc = "mark_payload"
    /\ LET key == ContentTypeKey(rot_item)
       IN  /\ \E sh \in MarkOutcomes(payload[key], content_item[1],
                                     LocalStamp(clock)) :
                 payload' = [payload EXCEPT ![key] = sh]
           /\ payload_marks' = payload_marks \cup {<<key, content_item[1]>>}
           /\ RotReturn(<<data_sources[key].header_text,
                          Get(content_item[2], "content", "")>>)
    /\ UNCHANGED <<rotation, rot_item, content_item, rot_marks,
                   payload_opens, dvars, svars, jvars, hvars, cvars, tvars>>

\* The caller has the pair; the next call can begin.
RotReturned ==
    /\ rpc = "done"
    /\ rpc' = "idle"
    /\ UNCHANGED <<rotation, payload, rot_item, content_item, returned,
                   rot_marks, payload_marks, payload_opens, dvars, svars,
                   jvars>>

RotDone == RotReturned /\ UNCHANGED <<hvars, cvars, tvars>>

RotationNext ==
    \/ \E configured \in BOOLEAN, opened \in BOOLEAN :
          RotOpen(configured, opened)
    \/ RotSelect
    \/ RotMark
    \/ \E opened \in BOOLEAN : RotOpenPayload(opened)
    \/ RotDraw
    \/ RotMarkPayload
    \/ RotDone

SpecRotation == RotationInit /\ [][RotationNext]_vars

\* Calls of _get_rotating_content one after the other, every remote call
\* succeeding: no call of get_unused_item raises, a mark leaves its row
\* used.  cycle.given keeps the row of the
\* call before when that call drew no payload.
RotationCallsNext ==
    \/ RotOpen(TRUE, TRUE)
    \/ RotSelectFrom(Succeeding(GetUnusedOutcomes(rotation, NoLang)))
    \/ /\ RotMark
       /\ UsedOf(rotation', rot_item[1]) = "TRUE"
    \/ RotOpenPayload(TRUE)
    \/ /\ rpc = "draw"
       /\ RotDrawFrom(Succeeding(GetUnusedOutcomes(
                         payload[ContentTypeKey(rot_item)], NoLang)))
    \/ /\ RotMarkPayload
       /\ UsedOf(payload'[ContentTypeKey(rot_item)], content_item[1]) = "TRUE"
    \/ /\ RotReturned
       /\ cycle' = [cycle EXCEPT !.given =
                      IF rot_item # NoItem /\ content_item = NoItem
                      THEN <<rot_item[1]>> ELSE <<>>]
       /\ UNCHANGED <<cvars, tvars>>

SpecRotationCalls == RotationInit /\ [][RotationCallsNext]_vars

(***************************************************************************)
(* One job run: JobProcessor.execute over the (theme, language) groups of  *)
(* the users subscribed to the slot.                                       *)
(***************************************************************************)
MaxUsers == 2

\* Python's None.
NoValue == "<None>"

\* app_config["themes"]: a theme of a strategy module, another, and one
\* whose type names no module; the theme "ghost" has no entry.
themes ==
    [daily |-> [type |-> "llm_static"],
     rotating |-> [type |-> "llm_dynamic"],
     odd |-> [type |-> "telepathy"]]

ThemeNames == {"daily", "rotating", "odd", "ghost"}

\* The modules of the package src.prompt_type, each with a process().
StrategyModules ==
    {"llm_static", "simple_static", "hybrid_dual_static", "llm_dynamic"}

\* user["subscriptions"][time_key] of a user: nothing, one theme, two.
ThemeLists ==
    {<<>>, <<"ghost", "daily">>} \cup { <<t>> : t \in ThemeNames }

\* The lists of n users of app_config: user i has the description "user<i>", is
\* active or not, has a language or none, and its themes of the slot.
UserListsOf(n) ==
    { [i \in 1..n |->
         [description |-> "user" \o ToString(i),
          active |-> actives[i],
          language |-> langs[i],
          themes |-> lists[i]]] :
        actives \in [1..n -> BOOLEAN],
        langs \in [1..n -> {"english", NoValue}],
        lists \in [1..n -> ThemeLists] }

\* active_users = [u for u in users if u.get("active", True)]
IsActive(user) == user.active

ActiveUsers(us) == SelectSeq(us, IsActive)

\* lang = user.get("language", "slovak")
LangOf(user) == IF user.language = NoValue THEN "slovak" ELSE user.language

\* Mutant of AppendToGroup: every user gets a group of its own.
AppendToGroupOfItsOwn(groups, key, user) ==
    Append(groups, [key |-> key, users |-> <<user>>])

\* content_groups[(theme, lang)].append(user): the group of the key gets
\* the user, a new key a new group after the others.
AppendToGroup(groups, key, user) ==
    IF \E i \in 1..Len(groups) : groups[i].key = key
    THEN [i \in 1..Len(groups) |->
            IF groups[i].key = key
            THEN [groups[i] EXCEPT !.users = Append(@, user)]
            ELSE groups[i]]
    ELSE Append(groups, [key |-> key, users |-> <<user>>])

\* _prepare_content_groups, lines 101-106: the loops over the subscribed
\* users and their themes, from user i and its theme j on.
RECURSIVE GroupFrom(_, _, _, _)
GroupFrom(us, i, j, groups) ==
    IF i > Len(us) THEN groups
    ELSE IF j > Len(us[i].themes) THEN GroupFrom(us, i + 1, 1, groups)
    ELSE GroupFrom(us, i, j + 1,
                   AppendToGroup(groups,
                                 <<us[i].themes[j], LangOf(us[i])>>,
                                 us[i].description))

\* _prepare_content_groups
PrepareContentGroups(us) == GroupFrom(ActiveUsers(us), 1, 1, <<>>)

\* What strategy_module.process(theme_config, lang) can return.
StrategyResults ==
    { <<NoValue, NoValue>>, <<"", NoValue>>, <<"text", NoValue>>,
      <<"text", "image">> }

\* Mutant of Truthy: only None counts as no content.
TruthyUnlessNone(value) == value # NoValue

\* if reflection_text: / if image_url:
Truthy(value) == value # NoValue /\ value # ""

JobInit ==
    /\ store = << <<"content", "language", "used", "date_used">> >>
    /\ StoreIdle
    /\ RotationIdle
    /\ DispatcherIdle
    /\ CycleIdle
    /\ StrategyIdle
    /\ \E n \in 0..MaxUsers : users \in UserListsOf(n)
    /\ content_groups = <<>>
    /\ jpc = "start"
    /\ gidx = 0
    /\ reflection = <<>>
    /\ outcome = <<>>
    /\ sent = {}

\* execute, lines 210-217: the configuration and the groups; the run ends
\* when there is no configuration or nobody is subscribed.
JobPrepare(configOk) ==
    /\ jpc = "start"
    /\ IF configOk /\ PrepareContentGroups(users) # <<>>
       THEN /\ content_groups' = PrepareContentGroups(users)
            /\ gidx' = 1
            /\ jpc' = "loop"
       ELSE /\ jpc' = "finished"
            /\ UNCHANGED <<content_groups, gidx>>
    /\ UNCHANGED <<users, reflection, outcome, sent, dvars, svars, rvars, hvars, cvars, tvars>>

\* The loop goes on with the next group, how records what became of this
\* one.
NextGroup(how) ==
    /\ outcome' = Append(outcome, how)
    /\ gidx' = gidx + 1
    /\ jpc' = "loop"

\* execute, lines 219-235: the next group and its theme configuration; a
\* theme without one is skipped, the run is over after the last group.
GroupLookup ==
    /\ jpc = "loop"
    /\ IF gidx > Len(content_groups)
       THEN /\ jpc' = "finished"
            /\ UNCHANGED <<gidx, outcome>>
       ELSE IF content_groups[gidx].key[1] \notin DOMAIN themes
       THEN NextGroup("no_config")
       ELSE /\ jpc' = "process"
            /\ UNCHANGED <<gidx, outcome>>
    /\ UNCHANGED <<users, content_groups, reflection, sent, dvars, svars,
                   rvars, hvars, cvars, tvars>>

\* _process_group and execute, lines 237-251: the module of the theme's
\* type is imported and its process() called; an ImportError gives
\* (None, None), any other exception is caught by execute, which logs it
\* and goes on, as it does when there is no text.
ProcessGroup(raised, res) ==
    /\ jpc = "process"
    /\ LET theme_type == Get(themes[content_groups[gidx].key[1]], "type",
                             "llm_static")
       IN  IF theme_type \notin StrategyModules
           THEN /\ NextGroup("unknown_type")
                /\ reflection' = <<NoValue, NoValue>>
           ELSE IF raised
           THEN /\ NextGroup("raised")
                /\ UNCHANGED reflection
           ELSE IF ~Truthy(res[1])
           THEN /\ NextGroup("no_content")
                /\ reflection' = res
           ELSE /\ reflection' = res
                /\ jpc' = "distribute"
                /\ UNCHANGED <<gidx, outcome>>
    /\ UNCHANGED <<users, content_groups, sent, dvars, svars, rvars, hvars, cvars, tvars>>

\* _distribute_content: a photo or a message to every user of the group;
\* the sends return False on failure and raise nothing.
DistributeContent ==
    /\ jpc = "distribute"
    /\ sent' = sent \cup
                 { <<gidx, content_groups[gidx].users[k],
                     IF Truthy(reflection[2]) THEN "photo" ELSE "message">> :
                     k \in 1..Len(content_groups[gidx].users) }
    /\ NextGroup("content")
    /\ UNCHANGED <<users, content_groups, reflection, dvars, svars, rvars, hvars, cvars, tvars>>

JobNext ==
    \/ \E configOk \in BOOLEAN : JobPrepare(configOk)
    \/ GroupLookup
    \/ \E raised \in BOOLEAN, res \in StrategyResults :
          ProcessGroup(raised, res)
    \/ DistributeContent

SpecJob == JobInit /\ [][JobNext]_vars

(***************************************************************************)
(* One run of a content strategy: execute() of the module that the type of *)
(* the theme names.  llm_static and simple_static draw from the worksheet  *)
(* of the theme (store), hybrid_dual_static from two of the data sources   *)
(* (payload), llm_dynamic through _get_rotating_content.                   *)
(***************************************************************************)
\* theme_config["art_source"] and theme_config["language_source"] of the
\* hybrid theme: two of the data_sources.
art_source == "quotes"

language_source == "facts"

\* The language get_unused_item is called with: self.lang in llm_static
\* (line 116), language=None in simple_static (line 64).
StrategyLanguage(type) == IF type = "llm_static" THEN "english" ELSE NoLang

\* What the text of a run can come to: None (no prompt template, an empty
\* answer of the LLM, a KeyError caught), the empty string, a text.
TextResults == {NoValue, "", "text"}

\* Mutant of StaticMarks: llm_static marks the row whatever the LLM gave.
StaticMarksAlways(type, text) == TRUE

\* Whether execute() goes on to mark_item_as_used: llm_static when
\* reflection_text is truthy (lines 123-125), simple_static whenever the
\* template was loaded and formatted (lines 74-92).
StaticMarks(type, text) ==
    IF type = "llm_static" THEN Truthy(text) ELSE text # NoValue

\* Mutant of HybridMarks: the rows are marked whatever was formatted.
HybridMarksAlways(text) == TRUE

\* hybrid_dual_static.execute, line 166: if final_text
HybridMarks(text) == Truthy(text)

\* execute() returns; text is None for (None, None).
StratReturn(text) ==
    /\ tpc' = "returned"
    /\ final_text' = text

\* The variables of the callers of the store.
store_callers ==
    <<spc, language, header, unused_items, updates, result, first_values,
      resets, rereads, failure, last_mark, mark_warning>>

\* llm_static.execute, lines 109-119, and simple_static.execute, lines
\* 56-69: the worksheet of the theme is opened and a row selected.
StaticSelect(opened) ==
    /\ strategy_type \in {"llm_static", "simple_static"}
    /\ tpc = "idle"
    /\ IF ~opened
       THEN /\ StratReturn(NoValue)
            /\ UNCHANGED <<store, row_item>>
       ELSE \E o \in GetUnusedOutcomes(store,
                                       StrategyLanguage(strategy_type)) :
              /\ store' = o.sheet
              /\ row_item' = o.item
              /\ IF o.item = NoItem
                 THEN StratReturn(NoValue)
                 ELSE tpc' = "generate" /\ UNCHANGED final_text
    /\ UNCHANGED <<strategy_type, art_item, lang_item, store_callers,
                   dvars, rvars, jvars, hvars, cvars>>

\* llm_static.execute, lines 121-127 (_generate_llm_text, lines 69-96), and
\* simple_static.execute, lines 71-90: the text is made; format() and the
\* call of the LLM can raise.
StaticGenerate(text, raised) ==
    /\ strategy_type \in {"llm_static", "simple_static"}
    /\ tpc = "generate"
    /\ IF raised
       THEN tpc' = "raised" /\ UNCHANGED final_text
       ELSE IF StaticMarks(strategy_type, text)
       THEN tpc' = "mark" /\ final_text' = text
       ELSE StratReturn(NoValue)
    /\ UNCHANGED <<strategy_type, row_item, art_item, lang_item, svars,
                   dvars, rvars, jvars, hvars, cvars>>

\* llm_static.execute, lines 124-125, and simple_static.execute, lines
\* 92-94: the row is marked and the text returned.
StaticMark ==
    /\ strategy_type \in {"llm_static", "simple_static"}
    /\ tpc = "mark"
    /\ store' \in MarkOutcomes(store, row_item[1], LocalStamp(clock))
    /\ tpc' = "returned"
    /\ UNCHANGED <<strategy_type, row_item, art_item, lang_item, final_text,
                   store_callers, dvars, rvars, jvars, hvars, cvars>>

\* hybrid_dual_static._fetch_art_data, lines 67-83, called from execute,
\* line 161.
HybridFetchArt(opened) ==
    /\ strategy_type = "hybrid_dual_static"
    /\ tpc = "idle"
    /\ IF ~opened
       THEN /\ StratReturn(NoValue)
            /\ UNCHANGED <<payload, art_item>>
       ELSE \E o \in GetUnusedOutcomes(payload[art_source], NoLang) :
              /\ payload' = [payload EXCEPT ![art_source] = o.sheet]
              /\ art_item' = o.item
              /\ IF o.item = NoItem
                 THEN StratReturn(NoValue)
                 ELSE tpc' = "language" /\ UNCHANGED final_text
    /\ UNCHANGED <<strategy_type, row_item, lang_item, rotation, rpc,
                   rot_item, content_item, returned, rot_marks,
                   payload_marks, payload_opens,
                   svars, dvars, jvars, hvars, cvars>>

\* hybrid_dual_static._fetch_language_data, lines 92-110, called from
\* execute, line 161.
HybridFetchLanguage(opened) ==
    /\ strategy_type = "hybrid_dual_static"
    /\ tpc = "language"
    /\ IF ~opened
       THEN /\ StratReturn(NoValue)
            /\ UNCHANGED <<payload, lang_item>>
       ELSE \E o \in GetUnusedOutcomes(payload[language_source], NoLang) :
              /\ payload' = [payload EXCEPT ![language_source] = o.sheet]
              /\ lang_item' = o.item
              /\ IF o.item = NoItem
                 THEN StratReturn(NoValue)
                 ELSE tpc' = "format" /\ UNCHANGED final_text
    /\ UNCHANGED <<strategy_type, row_item, art_item, rotation, rpc,
                   rot_item, content_item, returned, rot_marks,
                   payload_marks, payload_opens,
                   svars, dvars, jvars, hvars, cvars>>

\* hybrid_dual_static.execute, lines 164-169 (_format_text, lines 120-144):
\* the text is formatted, format() can raise; without a text execute
\* returns what _format_text gave.
HybridFormat(text, raised) ==
    /\ strategy_type = "hybrid_dual_static"
    /\ tpc = "format"
    /\ IF raised
       THEN tpc' = "raised" /\ UNCHANGED final_text
       ELSE IF HybridMarks(text)
       THEN tpc' = "mark_art" /\ final_text' = text
       ELSE StratReturn(text)
    /\ UNCHANGED <<strategy_type, row_item, art_item, lang_item, svars,
                   dvars, rvars, jvars, hvars, cvars>>

\* hybrid_dual_static._mark_items_as_used, lines 148-149.
HybridMarkArt ==
    /\ strategy_type = "hybrid_dual_static"
    /\ tpc = "mark_art"
    /\ \E sh \in MarkOutcomes(payload[art_source], art_item[1],
                              LocalStamp(clock)) :
          payload' = [payload EXCEPT ![art_source] = sh]
    /\ tpc' = "mark_language"
    /\ UNCHANGED <<strategy_type, row_item, art_item, lang_item, final_text,
                   rotation, rpc, rot_item, content_item, returned,
                   rot_marks, payload_marks, payload_opens,
                   svars, dvars, jvars, hvars, cvars>>

\* hybrid_dual_static._mark_items_as_used, lines 150-151, and the return of
\* execute, line 169.
HybridMarkLanguage ==
    /\ strategy_type = "hybrid_dual_static"
    /\ tpc = "mark_language"
    /\ \E sh \in MarkOutcomes(payload[language_source], lang_item[1],
                              LocalStamp(clock)) :
          payload' = [payload EXCEPT ![language_source] = sh]
    /\ tpc' = "returned"
    /\ UNCHANGED <<strategy_type, row_item, art_item, lang_item, final_text,
                   rotation, rpc, rot_item, content_item, returned,
                   rot_marks, payload_marks, payload_opens,
                   svars, dvars, jvars, hvars, cvars>>

\* llm_dynamic.execute, lines 117-118: _fetch_content_data calls
\* get_all_dynamic_data, which calls _get_rotating_content for the
\* content_rotation_source of the theme (lines 248-251).
DynamicFetch ==
    /\ strategy_type = "llm_dynamic"
    /\ tpc = "idle"
    /\ tpc' = "content"
    /\ UNCHANGED <<strategy_type, row_item, art_item, lang_item, final_text,
                   svars, dvars, rvars, jvars, hvars, cvars>>

\* llm_dynamic.execute, lines 120-125 (_generate_llm_text, lines 89-107):
\* the prompt is formatted with the rotating content and the LLM called.
DynamicGenerate(text, raised) ==
    /\ strategy_type = "llm_dynamic"
    /\ tpc = "content"
    /\ rpc = "done"
    /\ IF raised
       THEN tpc' = "raised" /\ UNCHANGED final_text
       ELSE StratReturn(IF Truthy(text) THEN text ELSE NoValue)
    /\ UNCHANGED <<strategy_type, row_item, art_item, lang_item, svars,
                   dvars, rvars, jvars, hvars, cvars>>

\* The worksheets a run starts on: those of the strategy hold rows, used
\* and unused, none of them marked with a date; the others are empty.
StrategyInit ==
    /\ StoreIdle
    /\ DispatcherIdle
    /\ JobIdle
    /\ CycleIdle
    /\ tpc = "idle"
    /\ row_item = NoItem
    /\ art_item = NoItem
    /\ lang_item = NoItem
    /\ final_text = NoValue
    /\ rpc = "idle"
    /\ rot_item = NoItem
    /\ content_item = NoItem
    /\ returned = NoReturn
    /\ rot_marks = {}
    /\ payload_marks = {}
    /\ payload_opens = {}
    /\ \/ /\ strategy_type \in {"llm_static", "simple_static"}
          /\ store \in RaceStores
          /\ rotation = << <<"content", "language", "used", "date_used">> >>
          /\ payload = [k \in DOMAIN data_sources |->
                          << <<"content", "language", "used",
                               "date_used">> >>]
       \/ /\ strategy_type = "hybrid_dual_static"
          /\ store = << <<"content", "language", "used", "date_used">> >>
          /\ rotation = << <<"content", "language", "used", "date_used">> >>
          /\ payload \in [DOMAIN data_sources -> PayloadSheets]
       \/ /\ strategy_type = "llm_dynamic"
          /\ store = << <<"content", "language", "used", "date_used">> >>
          /\ rotation \in RotationSheets
          /\ payload \in { [k \in DOMAIN data_sources |-> sheet] :
                            sheet \in PayloadSheets }

StrategyNext ==
    \/ \E opened \in BOOLEAN : StaticSelect(opened)
    \/ \E text \in TextResults, raised \in BOOLEAN :
          StaticGenerate(text, raised)
    \/ StaticMark
    \/ \E opened \in BOOLEAN : HybridFetchArt(opened)
    \/ \E opened \in BOOLEAN : HybridFetchLanguage(opened)
    \/ \E text \in TextResults, raised \in BOOLEAN :
          HybridFormat(text, raised)
    \/ HybridMarkArt
    \/ HybridMarkLanguage
    \/ DynamicFetch
    \/ /\ tpc = "content"
       /\ \E configured \in BOOLEAN, opened \in BOOLEAN :
             RotOpen(configured, opened)
    \/ tpc = "content" /\ RotSelect
    \/ tpc = "content" /\ RotMark
    \/ tpc = "content" /\ \E opened \in BOOLEAN : RotOpenPayload(opened)
    \/ tpc = "content" /\ RotDraw
    \/ tpc = "content" /\ RotMarkPayload
    \/ \E text \in TextResults, raised \in BOOLEAN :
          DynamicGenerate(text, raised)

SpecStrategy == StrategyInit /\ [][StrategyNext]_vars

(***************************************************************************)
(* The claims about the dispatcher and the lock ledger.                    *)
(***************************************************************************)
\* The rows of the ledger whose first cell is k.
RowsOf(k) == { i \in 1..Len(ledger) : ledger[i][1] = k }

HeaderNames == { ledger[1][i] : i \in 1..Len(ledger[1]) }

\* The first slot's window holds the instant p read as now_utc.
SawWindow(p, time_key) ==
    InWindow(TimeDiffMinutes(now_utc[p], now_utc[p], scheduled_jobs[time_key]))

\* C1 (as claimed): for every slot and local date, over all invocations,
\* overlapping ones included, run_once.py is started at most once.
C1_StartedAtMostOnce == \A k \in JobKeys : started[k] <= 1

\* C1 (amended): an invocation starts the job of a job key only by the path
\* check, mark, run; it leaves the check towards the start only when the
\* ledger it read holds no row with the key; and it does not start the job
\* of a key it has started before.
C1_StartNeedsOwnClearCheck ==
    [][\A p \in Procs :
          /\ (pc[p] = "check" /\ pc'[p] # "check")
                => (pc'[p] \in {"mark", "loop"}
                    /\ (pc'[p] = "mark" => RowsOf(job_key[p]) = {}))
          /\ (pc'[p] = "mark" /\ pc[p] # "mark") => pc[p] = "check"
          /\ (pc'[p] = "run" /\ pc[p] # "run") => pc[p] = "mark"
          /\ (pc'[p] = "running" /\ pc[p] # "running")
                => (pc[p] = "run" /\ job_key[p] \notin mine[p].starts)
          /\ (\E k \in JobKeys : started'[k] > started[k])
                => (\E q \in Procs : pc[q] = "run" /\ pc'[q] = "running")
      ]_vars

\* C1 witness: with the job of a key started once and its row in the
\* ledger, a second invocation has passed that slot without starting it.
C1_Witness ==
    \E p \in Procs, q \in Procs :
        /\ p # q
        /\ pc[p] = "running" /\ RowsOf(job_key[p]) # {}
        /\ started[job_key[p]] = 1
        /\ today_local[q] = today_local[p]
        /\ pc[q] = "loop" /\ idx[q] > 1 /\ mine[q].starts = {}
        /\ job_key[p] = JobKey(SlotOrder[1], today_local[p])
        /\ SawWindow(q, SlotOrder[1])

\* C2 (as claimed): while run_once.py runs for a job key, the ledger holds
\* a row with that key, also when append_row failed.
C2_RecordedBeforeStart ==
    \A p \in Procs : pc[p] = "running" => RowsOf(job_key[p]) # {}

\* C3: with invocations one after the other and every read and append
\* succeeding, mark_job_as_triggered is not called for a key the ledger
\* holds, and every key is in at most one row of the ledger.
C3_OneRowPerKey ==
    /\ \A p \in Procs : pc[p] = "mark" => RowsOf(job_key[p]) = {}
    /\ \A k \in JobKeys : Cardinality(RowsOf(k)) <= 1

\* C3 witness: a later invocation passed both slots of a date whose keys
\* were in the ledger, and appended nothing.
C3_Witness ==
    \E p \in Procs :
        /\ invocations >= 2
        /\ pc[p] = "loop" /\ idx[p] = 3
        /\ mine[p].rows = {} /\ mine[p].starts = {}
        /\ SawWindow(p, "time1") /\ SawWindow(p, "time2")
        /\ \A k \in TodayKeys(now_utc[p]) : Cardinality(RowsOf(k)) = 1

\* C4 (as claimed): once run_once.py has exited non-zero for a job key of
\* the current local date, no check of that key by a later invocation
\* answers "has not run", so the slot's job is not started again on that
\* date.
C4_NoRestartAfterFailure ==
    [][\A p \in Procs :
          (pc[p] = "check" /\ job_key[p] \in failed) => pc'[p] # "mark"
      ]_vars

\* C5: an invocation whose read of the ledger failed in check_if_job_ran
\* for a job key appends no row for that key and does not start its job.
C5_ReadErrorSkips ==
    \A p \in Procs :
        /\ mine[p].readErr \cap (mine[p].rows \cup mine[p].starts) = {}
        /\ pc[p] \in {"mark", "run", "running"}
              => job_key[p] \notin mine[p].readErr

\* C5 witness: an invocation has gone on to the next slot after a failed
\* read for a key that is not in the ledger.
C5_Witness ==
    \E p \in Procs, k \in JobKeys :
        /\ k \in mine[p].readErr
        /\ RowsOf(k) = {}
        /\ pc[p] = "loop" /\ idx[p] > 1

\* C6: a check whose read succeeds answers "has run" exactly when the job
\* key equals some cell of column A, at whatever row; and a key whose
\* append succeeded is answered "has run" in every later state.
C6_CheckIsMembership ==
    /\ [][\A p \in Procs :
            (pc[p] = "check" /\ pc'[p] # "check"
                /\ mine'[p].readErr = mine[p].readErr)
              => (pc'[p] = "loop" <=> RowsOf(job_key[p]) # {})
        ]_vars
    /\ [](\A k \in marked : \A ok \in BOOLEAN :
            CheckResult(ok, ColValues(ledger, 1), k))

\* C6 witness: an invocation has skipped the second slot because its key
\* stands in a row below the first data row.
C6_Witness ==
    \E p \in Procs :
        /\ pc[p] = "loop" /\ idx[p] = 3
        /\ mine[p].readErr = {} /\ mine[p].starts = {}
        /\ SawWindow(p, "time2")
        /\ \E i \in RowsOf(JobKey("time2", today_local[p])) : i >= 3
        /\ JobKey("time2", today_local[p]) \in marked

\* C7: every step leaves the ledger as it is or appends, for an invocation
\* that is about to mark, the one row (job_key, UTC timestamp, "TRIGGERED")
\* at its end.
C7_AppendOnly ==
    [][\/ ledger' = ledger
       \/ \E p \in Procs :
            /\ pc[p] = "mark"
            /\ ledger' =
                 Append(ledger, <<job_key[p], UtcStamp(clock), "TRIGGERED">>)
      ]_vars

\* C7 witness: the ledger holds two appended rows with different keys.
C7_Witness ==
    /\ Len(ledger) >= 3
    /\ ledger[2][1] # ledger[3][1]
    /\ ledger[3][3] = "TRIGGERED"

PastOpen == {"now", "today", "loop", "check", "mark", "run", "running"}

\* C8: an invocation gets past the validation only when the sheet was
\* opened and read and the header row holds the three required names; an
\* invocation that aborted has evaluated no slot, appended no row and
\* started no job.
C8_AbortOnBadLedger ==
    \A p \in Procs :
        /\ pc[p] \in PastOpen
              => (mine[p].opened /\ REQUIRED_HEADERS \subseteq HeaderNames)
        /\ pc[p] = "aborted"
              => /\ idx[p] = 0 /\ job_key[p] = NoKey
                 /\ mine[p].rows = {} /\ mine[p].starts = {}
                 /\ ~(mine[p].opened /\ REQUIRED_HEADERS \subseteq HeaderNames)

\* C8 witness: the second invocation aborted on a sheet it opened and
\* read, whose header row lacks a required name, inside a slot's window.
C8_Witness ==
    \E p \in Procs :
        /\ pc[p] = "aborted" /\ mine[p].opened
        /\ ~(REQUIRED_HEADERS \subseteq HeaderNames)
        /\ invocations = 2
        /\ \E time_key \in DOMAIN scheduled_jobs :
              InWindow(TimeDiffMinutes(clock, clock, scheduled_jobs[time_key]))
        /\ Len(ledger) = 1

(***************************************************************************)
(* The claims about the selection store.                                   *)
(***************************************************************************)
\* Caller w has its answer from get_unused_item(S, None), no remote call
\* having raised.
AnsweredNoLang(w) ==
    spc[w] = "returned" /\ language[w] = NoLang /\ ~failure[w]

\* The pair get_unused_item returned is (r, the record of row r of sheet).
ReturnedRowOf(w, sheet) ==
    /\ result[w] # NoItem
    /\ result[w][1] >= 2
    /\ result[w][1] \in DataRows(sheet)
    /\ result[w][2] = Dict(sheet[1], sheet[result[w][1]])

\* C9 (as claimed): from a store with a data row whose used value is
\* "FALSE", get_unused_item(S, None) returns (Row Index, Record) with
\* used = "FALSE" in the record, the index >= 2 and the record the row at
\* that index.
C9_ReturnsRowWithFALSE ==
    \A w \in Callers :
        (/\ AnsweredNoLang(w)
         /\ \E r \in DataRows(first_values[w]) :
                UsedOf(first_values[w], r) = "FALSE")
          => /\ ReturnedRowOf(w, first_values[w])
             /\ Get(result[w][2], "used", "") = "FALSE"

\* C9 (amended): the same with the used value compared in upper case, as
\* the filter compares it: from a store with a data row whose used value
\* is "FALSE" in any letter case, the record returned has such a used
\* value.
C9_ReturnsUnusedRow ==
    \A w \in Callers :
        (/\ AnsweredNoLang(w)
         /\ \E r \in DataRows(first_values[w]) :
                Upper(UsedOf(first_values[w], r)) = "FALSE")
          => /\ ReturnedRowOf(w, first_values[w])
             /\ Upper(Get(result[w][2], "used", "")) = "FALSE"
             /\ resets[w] = 0

\* C9 witness: the second data row was returned from a store whose first
\* data row is used.
C9_Witness ==
    \E w \in Callers :
        /\ AnsweredNoLang(w)
        /\ result[w] # NoItem /\ result[w][1] = 3
        /\ UsedOf(first_values[w], 2) = "TRUE"
        /\ UsedOf(first_values[w], 3) = "FALSE"

\* C10: a call makes at most one reset write and one read after it; from a
\* store whose data rows all have used = "TRUE", get_unused_item(S, None)
\* makes exactly one reset, after which every data row has used = "FALSE",
\* and returns one of these rows; from a store without data rows it
\* returns (None, None) without a reset.
C10_OneResetThenItem ==
    \A w \in Callers :
        /\ resets[w] <= 1
        /\ rereads[w] <= 1
        /\ (/\ AnsweredNoLang(w)
            /\ Len(first_values[w]) >= 2
            /\ \A r \in DataRows(first_values[w]) :
                   UsedOf(first_values[w], r) = "TRUE")
             => /\ resets[w] = 1
                /\ rereads[w] = 1
                /\ \A r \in DataRows(store) : UsedOf(store, r) = "FALSE"
                /\ ReturnedRowOf(w, store)
        /\ (AnsweredNoLang(w) /\ Len(store) < 2)
             => (result[w] = NoItem /\ resets[w] = 0)

\* C10 witness: a row came back after the reset of a store of two used
\* rows.
C10_Witness ==
    \E w \in Callers :
        /\ AnsweredNoLang(w)
        /\ Len(first_values[w]) = 3
        /\ \A r \in DataRows(first_values[w]) :
               UsedOf(first_values[w], r) = "TRUE"
        /\ resets[w] = 1
        /\ result[w] # NoItem

\* The language cell of data row r of a sheet, as the record of the row has
\* it.
LanguageOf(sheet, r) == Get(Dict(sheet[1], sheet[r]), "language", "")

\* Row r of a sheet is a row of language lang, the row's letters lowered.
MatchesLanguage(sheet, r, lang) ==
    lang # NoLang => Lower(LanguageOf(sheet, r)) = lang

\* Caller w has its answer from get_unused_item, no remote call having
\* raised.
Answered(w) == spc[w] = "returned" /\ ~failure[w]

\* C11: the batched write of a reset leaves the sheet with used = "FALSE"
\* on every row of the call's language, changes no other cell, and the
\* call that made it returns one of the rows it reset.
C11_ResetOnlyMatchingRows ==
    /\ [][\A w \in Callers :
            (spc[w] = "reset_write" /\ spc'[w] = "reread")
              => /\ Len(store') = Len(store)
                 /\ store'[1] = store[1]
                 /\ \A r \in DataRows(store) :
                       IF MatchesLanguage(store, r, language[w])
                       THEN /\ UsedOf(store', r) = "FALSE"
                            /\ \A c \in 1..Len(store[r]) :
                                  store[1][c] # "used"
                                      => store'[r][c] = store[r][c]
                       ELSE store'[r] = store[r]
        ]_vars
    /\ [](\A w \in Callers :
            (Answered(w) /\ resets[w] = 1)
              => /\ ReturnedRowOf(w, store)
                 /\ MatchesLanguage(store, result[w][1], language[w])
                 /\ \E u \in updates[w] : u.row = result[w][1])

\* C11 witness: in the store of the example both english rows have been
\* returned and marked, the third get_unused_item(S, "english") has reset
\* these two rows only and returned one of them.
C11_Witness ==
    \E w \in Callers :
        /\ Answered(w) /\ language[w] = "english" /\ resets[w] = 1
        /\ Len(first_values[w]) = 4
        /\ \A r \in {2, 3} :
              /\ first_values[w][r][2] = "english"
              /\ first_values[w][r][3] = "TRUE"
              /\ first_values[w][r][4] # ""
              /\ store[r][3] = "FALSE"
        /\ first_values[w][4] = <<"item3", "slovak", "FALSE", "">>
        /\ store[4] = first_values[w][4]
        /\ result[w][1] \in {2, 3}

\* C12: a row that mark_item_as_used has marked, the columns present and
\* the write succeeding, keeps used = "TRUE" and is not the row a following
\* get_unused_item(S, None) returns, until a reset rewrites its used cell.
C12_MarkedRowNotReturned ==
    /\ last_mark.row # 0 => UsedOf(store, last_mark.row) = "TRUE"
    /\ \A w \in Callers :
          (AnsweredNoLang(w) /\ result[w] # NoItem /\ last_mark.row # 0)
            => result[w][1] # last_mark.row

\* C12 witness: the get_unused_item(S, None) after the mark of row 2 has
\* returned row 3, no reset in between.
C12_Witness ==
    \E w \in Callers :
        /\ AnsweredNoLang(w) /\ resets[w] = 0
        /\ last_mark.row = 2
        /\ result[w] # NoItem /\ result[w][1] = 3

\* C13: the record get_unused_item(S, lang) returns, straight away or after
\* a reset, has a language equal to lang, letter case ignored.
C13_ReturnedRowHasLanguage ==
    \A w \in Callers :
        (Answered(w) /\ result[w] # NoItem /\ language[w] # NoLang)
          => Lower(Get(result[w][2], "language", "")) = Lower(language[w])

\* C13 witness: under the filter "english" a row whose language cell reads
\* "English" came back after a reset, from a store that holds a row of
\* another language.
C13_Witness ==
    \E w \in Callers :
        /\ Answered(w) /\ language[w] = "english" /\ resets[w] = 1
        /\ result[w] # NoItem
        /\ Get(result[w][2], "language", "") = "English"
        /\ \E r \in DataRows(store) : LanguageOf(store, r) = "slovak"

\* The Row Indexes of a list of (Row Index, Record) pairs.
IndexesOf(items) == { items[j][1] : j \in 1..Len(items) }

\* C14 (as claimed): the rows the filter of get_unused_item(S, lang) finds
\* in the sheet it read are exactly the rows with used = "FALSE" whose
\* language equals lang with the letter case of both ignored.
C14_FilterIgnoresCase ==
    \A w \in Callers :
        (spc[w] \in {"choose", "reset_read"} /\ rereads[w] = 0)
          => IndexesOf(unused_items[w])
               = { r \in DataRows(first_values[w]) :
                     /\ UsedOf(first_values[w], r) = "FALSE"
                     /\ language[w] # NoLang
                           => Lower(LanguageOf(first_values[w], r))
                                = Lower(language[w]) }

\* Caller w is inside get_unused_item.
InGet(w) == spc[w] \in {"read", "reset_read", "reset_write", "reread", "choose"}

\* The cells in which sheet b differs from sheet a of the same shape.
ChangedCells(a, b) ==
    { <<r, c>> \in (1..Len(a)) \X (1..Len(a[1])) : a[r][c] # b[r][c] }

\* C15: a get_unused_item that found an unused matching row at its first
\* read has written nothing when it returns; while a caller is inside
\* get_unused_item the store changes only by the write of the reset, and
\* then only in data cells of the used column.
C15_SelectionWritesNothing ==
    /\ [](\A w \in Callers :
            (spc[w] \in {"choose", "returned"} /\ resets[w] = 0
                /\ first_values[w] # <<>>)
              => store = first_values[w])
    /\ [][\A w \in Callers :
            (InGet(w) /\ store' # store)
              => /\ spc[w] = "reset_write"
                 /\ unused_items[w] = <<>>
                 /\ Len(store') = Len(store)
                 /\ \A r \in 1..Len(store) : Len(store'[r]) = Len(store[r])
                 /\ \A rc \in ChangedCells(store, store') :
                       rc[1] >= 2 /\ store[1][rc[2]] = "used"
        ]_vars

\* C15 witness: a call has returned the unused row of a store whose other
\* row is used, and the store is as the call read it.
C15_Witness ==
    \E w \in Callers :
        /\ Answered(w) /\ result[w] # NoItem /\ resets[w] = 0
        /\ Len(store) = 3
        /\ \E r \in DataRows(store) : UsedOf(store, r) = "TRUE"
        /\ store = first_values[w]

\* The date_used cell of data row r of a sheet.
DateUsedOf(sheet, r) == Get(Dict(sheet[1], sheet[r]), "date_used", "")

\* C16: the row of the latest successful mark_item_as_used has
\* used = "TRUE" and the timestamp of that call as date_used, also when the
\* row was marked before; the timestamp is the local time at the call; no
\* step adds or removes a row.  Every call ends by returning (the model
\* has no step by which an exception leaves mark_item_as_used).
C16_MarkIsIdempotent ==
    /\ [](last_mark.row # 0
            => /\ UsedOf(store, last_mark.row) = "TRUE"
               /\ DateUsedOf(store, last_mark.row) = last_mark.stamp)
    /\ [][/\ Len(store') = Len(store)
          /\ \A w \in Callers :
                /\ (spc[w] = "idle" /\ spc'[w] = "mark_write")
                      => \E u \in updates'[w] : u.value = LocalStamp(clock)
                /\ (spc[w] = "mark_write" /\ last_mark' # last_mark)
                      => /\ spc'[w] = "idle"
                         /\ \E u \in updates[w] :
                               /\ u.row = last_mark'.row
                               /\ u.value = last_mark'.stamp
        ]_vars

\* C16 witness: a row marked at one time has been marked again at a later
\* time and holds the later timestamp.
C16_Witness ==
    /\ last_mark.row # 0
    /\ last_mark.previous # ""
    /\ last_mark.previous # last_mark.stamp
    /\ last_mark.stamp = LocalStamp(clock)
    /\ UsedOf(store, last_mark.row) = "TRUE"
    /\ DateUsedOf(store, last_mark.row) = last_mark.stamp
    /\ \A w \in Callers : spc[w] = "idle"

\* C17: the cells mark_item_as_used is about to write are two, of one row,
\* in the columns headed used and date_used wherever these stand; its
\* write changes no other cell of the sheet and leaves used = "TRUE" and
\* the call's local timestamp in that row.
C17_MarkWritesTwoCells ==
    /\ [](\A w \in Callers :
            spc[w] = "mark_write"
              => /\ Cardinality(updates[w]) = 2
                 /\ \A u \in updates[w], v \in updates[w] : u.row = v.row
                 /\ \A u \in updates[w] : u.col \in 1..Len(header[w])
                 /\ { header[w][u.col] : u \in updates[w] }
                       = {"used", "date_used"})
    /\ [][store' # store
            => \E w \in Callers :
                 /\ spc[w] = "mark_write"
                 /\ store'[1] = store[1]
                 /\ ChangedCells(store, store')
                       \subseteq { <<u.row, u.col>> : u \in updates[w] }
                 /\ \A u \in updates[w] :
                       /\ UsedOf(store', u.row) = "TRUE"
                       /\ \E t \in Instants :
                             DateUsedOf(store', u.row) = LocalStamp(t)
        ]_vars

\* C17 witness: in a store whose header has used and date_used in front,
\* row 3 has been marked and row 2 is as it was.
C17_Witness ==
    /\ Len(store) = 3
    /\ store[1] = <<"used", "date_used", "content", "language">>
    /\ last_mark.row = 3
    /\ store[3] = <<"TRUE", last_mark.stamp, "item2", "english">>
    /\ store[2] = <<"FALSE", "", "item1", "english">>
    /\ \A w \in Callers : spc[w] = "idle"

\* The header row of the store lacks the used or the date_used column.
LacksMarkColumn ==
    ~({"used", "date_used"} \subseteq { store[1][c] : c \in 1..Len(store[1]) })

\* C18: on a store whose header lacks used or date_used no call of
\* mark_item_as_used gets to its write and no step changes the store; the
\* call that met the missing column logged its warning and returned.
C18_MissingColumnNoWrite ==
    /\ [](LacksMarkColumn
            => /\ \A w \in Callers : spc[w] # "mark_write"
               /\ last_mark = NoMark)
    /\ [](mark_warning = "missing_column" => LacksMarkColumn)
    /\ [][/\ LacksMarkColumn => store' = store
          /\ \A w \in Callers :
                (mark_warning' = "missing_column" /\ spc'[w] # spc[w])
                   => spc'[w] = "idle"
        ]_vars

\* C18 witness: mark_item_as_used has returned with its warning on a store
\* that has the used column, an unused row in it, and no date_used column.
C18_Witness ==
    /\ mark_warning = "missing_column"
    /\ store[1] = <<"content", "language", "used">>
    /\ Len(store) = 3
    /\ store[2][3] = "FALSE"
    /\ \A w \in Callers : spc[w] = "idle"

\* The header row of the store has no used column.
LacksUsedColumn == \A c \in 1..Len(store[1]) : store[1][c] # "used"

\* C19: a caller whom get_worksheet gave None goes no further; every call
\* of get_unused_item in which a remote read or write failed, or on a
\* store without used column, has returned (None, None) once it is over;
\* on a store without used column no write is made and the store stays as
\* it is.  (The model has no step by which an exception leaves
\* get_worksheet or get_unused_item.)
C19_FailuresReturnNone ==
    /\ [](\A w \in Callers :
            /\ (spc[w] = "returned" /\ (failure[w] \/ LacksUsedColumn))
                  => result[w] = NoItem
            /\ ((LacksUsedColumn /\ InGet(w)) \/ spc[w] = "unopened")
                  => (resets[w] = 0 /\ result[w] = NoItem))
    /\ [][/\ LacksUsedColumn => store' = store
          /\ \A w \in Callers :
                /\ spc[w] = "unopened" => spc'[w] \in {"unopened", "idle"}
                /\ (InGet(w) /\ failure'[w]) => spc'[w] = "returned"
        ]_vars

\* C19 witness: a call has returned (None, None) because the read after
\* its reset failed.
C19_Witness ==
    \E w \in Callers :
        /\ spc[w] = "returned" /\ failure[w]
        /\ result[w] = NoItem
        /\ resets[w] = 1 /\ rereads[w] = 1

(***************************************************************************)
(* The claims about rotating content.                                      *)
(***************************************************************************)
\* C20 (as claimed): when a call of _get_rotating_content that selected a
\* category row returns, it has called mark_item_as_used for that row,
\* whatever the row's content value.
C20_SelectedCategoryMarked ==
    (rpc = "done" /\ rot_item # NoItem) => rot_item[1] \in rot_marks

\* C21 (as claimed): a call that selected a category row whose content
\* value is not empty and is no key of data_sources returns a pair with a non-empty body.
C21_UnknownSourceExplained ==
    (/\ rpc = "done"
     /\ rot_item # NoItem
     /\ ContentTypeKey(rot_item) # ""
     /\ ContentTypeKey(rot_item) \notin DOMAIN data_sources)
      => (Len(returned) = 2 /\ returned[2] # "")

\* The data rows of sheet whose used cell reads FALSE.
UnusedRows(sheet) == { r \in DataRows(sheet) : UsedOf(sheet, r) = "FALSE" }

\* The header text of the source that the selected category names.
HeaderTextOf(item) == data_sources[ContentTypeKey(item)].header_text

\* C22: while the rotation sheet has unused rows the call selects one of
\* them and resets nothing; for a category with a source the payload comes
\* from that source's sheet only, the drawn payload row is the one marked
\* and the call returns the source's header text with the payload text;
\* a payload sheet that yields no item gives the header text with the
\* exhausted body and no payload row is marked.
C22_SelectsUnusedAndDraws ==
    /\ [][(rpc = "select" /\ rot_item' # NoItem
              /\ UnusedRows(rotation) # {})
            => /\ rotation' = rotation
               /\ rot_item'[1] \in UnusedRows(rotation)
               /\ rot_item'[2] = Dict(rotation[1], rotation[rot_item'[1]])]_vars
    /\ [][(rpc = "draw" /\ rpc' # "draw")
            => /\ \A k \in DOMAIN data_sources :
                     k # ContentTypeKey(rot_item) => payload'[k] = payload[k]
               /\ content_item' # NoItem
                     => /\ content_item'[1] \in
                              UnusedRows(payload'[ContentTypeKey(rot_item)])
                        /\ rpc' = "mark_payload"
               /\ content_item' = NoItem
                     => /\ returned' = <<HeaderTextOf(rot_item), ExhaustedBody>>
                        /\ rpc' = "done"
                        /\ payload_marks' = {}]_vars
    /\ [][(rpc = "mark_payload" /\ rpc' # "mark_payload")
            => LET key == ContentTypeKey(rot_item)
               IN  /\ \A k \in DOMAIN data_sources :
                         k # key => payload'[k] = payload[k]
                   /\ \/ payload'[key] = payload[key]
                      \/ /\ UsedOf(payload'[key], content_item[1]) = "TRUE"
                         /\ \A r \in DataRows(payload[key]) :
                               r # content_item[1]
                                 => payload'[key][r] = payload[key][r]]_vars
    /\ []((rpc = "done" /\ content_item # NoItem)
            => /\ ContentTypeKey(rot_item) \in DOMAIN data_sources
               /\ payload_opens = {ContentTypeKey(rot_item)}
               /\ payload_marks = {<<ContentTypeKey(rot_item), content_item[1]>>}
               /\ returned = <<HeaderTextOf(rot_item),
                               Get(content_item[2], "content", "")>>)

\* The spec's example: row A (content quotes) unused, row B used; the call
\* selected and marked A, drew the quotes payload and marked it.
C22_Witness ==
    /\ rpc = "done"
    /\ Len(rotation) = 3
    /\ rot_item # NoItem /\ rot_item[1] = 2
    /\ ContentTypeKey(rot_item) = "quotes"
    /\ rot_marks = {2}
    /\ UsedOf(rotation, 2) = "TRUE" /\ UsedOf(rotation, 3) = "TRUE"
    /\ Get(Dict(rotation[1], rotation[3]), "content", "") = "facts"
    /\ returned = <<"Quote", "text">>
    /\ payload_marks = {<<"quotes", 2>>}
    /\ UsedOf(payload["quotes"], 2) = "TRUE"

\* C23: when get_unused_item yields nothing for the rotation sheet the call
\* ends there with the pair ("Chyba", explanatory body): no row of any
\* sheet is marked used, no payload sheet is opened or changed.
C23_NoCategoryFallback ==
    /\ [][(rpc = "select" /\ rot_item' = NoItem)
            => /\ rpc' = "done"
               /\ Len(returned') = 2
               /\ returned'[1] = "Chyba"
               /\ returned'[2] = "Nepodarilo sa nacitat typ obsahu."
               /\ payload' = payload
               /\ \A r \in DataRows(rotation) :
                     UsedOf(rotation', r) = "TRUE"
                       => UsedOf(rotation, r) = "TRUE"]_vars
    /\ []((rpc = "done" /\ rot_item = NoItem)
            => /\ rot_marks = {}
               /\ payload_marks = {}
               /\ payload_opens = {})

\* The rotation sheet had rows, its read failed, and the call returned the
\* fallback pair.
C23_Witness ==
    /\ rpc = "done"
    /\ rot_item = NoItem
    /\ Len(rotation) >= 2
    /\ returned = <<"Chyba", "Nepodarilo sa nacitat typ obsahu.">>
    /\ payload_opens = {}

\* C24: the store keeps nothing of who holds a row: the candidates of a
\* call are the rows that read unused in the sheet it read, a row that
\* another process holds and has not yet marked among them; the reads and
\* the choice of get_unused_item write nothing that could keep the row
\* from the other process.
C24_NoMutualExclusion ==
    /\ [](\A w \in Callers, v \in Callers :
            (/\ v # w
             /\ spc[w] = "choose" /\ rereads[w] = 0
             /\ spc[v] = "returned" /\ result[v] # NoItem
             /\ result[v][1] \in DataRows(first_values[w])
             /\ UsedOf(first_values[w], result[v][1]) = "FALSE")
              => result[v][1] \in IndexesOf(unused_items[w]))
    /\ [][\A w \in Callers :
            (spc[w] \in {"read", "choose"} /\ spc'[w] # spc[w])
              => store' = store]_vars

\* Both processes hold the same Row Index from the same cycle (neither call
\* reset, neither has marked) although another unused row was there.
C24_Witness ==
    /\ \A w \in Callers :
          /\ spc[w] = "returned"
          /\ result[w] # NoItem
          /\ resets[w] = 0
    /\ result[1][1] = result[2][1]
    /\ UsedOf(store, result[1][1]) = "FALSE"
    /\ \E r \in DataRows(store) :
          r # result[1][1] /\ UsedOf(store, r) = "FALSE"

(***************************************************************************)
(* The claims about the job run.                                           *)
(***************************************************************************)
\* The users to whom something was sent for group g.
SentTo(g) == { m[2] : m \in { x \in sent : x[1] = g } }

UsersOf(g) ==
    { content_groups[g].users[k] : k \in 1..Len(content_groups[g].users) }

\* C25: when the run is over every group has been taken up in turn; a
\* group whose theme has no configuration, whose strategy type is unknown,
\* whose strategy raised or returned no text has had nothing sent, and
\* every group whose strategy returned a text has had it sent to each of
\* its users, whatever became of the groups before it.
C25_FailedGroupIsSkipped ==
    /\ jpc \in {"loop", "process", "distribute", "finished"}
         => /\ Len(outcome) = (IF jpc = "finished" THEN Len(content_groups)
                                ELSE gidx - 1)
            /\ \A g \in 1..Len(outcome) :
                  IF outcome[g] = "content"
                  THEN SentTo(g) = UsersOf(g)
                  ELSE SentTo(g) = {}
    /\ (jpc = "distribute"
          \/ (jpc = "loop" /\ outcome # <<>>
                /\ outcome[Len(outcome)] = "content"))
         => reflection[1] \notin {NoValue, ""}

\* A run of two groups: the first failed and got nothing, the second was
\* delivered to its user.
C25_Witness ==
    /\ jpc = "finished"
    /\ Len(content_groups) = 2
    /\ outcome[1] \in {"raised", "no_content", "no_config", "unknown_type"}
    /\ outcome[2] = "content"
    /\ SentTo(1) = {}
    /\ SentTo(2) = UsersOf(2)

(***************************************************************************)
(* The claims about the window and the keys of the ledger.                 *)
(***************************************************************************)
\* Process p hands its slot's job to subprocess.run in this step.
Starts(p) == pc[p] = "run" /\ pc'[p] = "running"

\* The minutes from the scheduled time of slot k on the local date of
\* instant t to instant t.
MinutesPast(t, k) == t - ScheduledDtUtc(t, scheduled_jobs[k])

\* C26 (as claimed): at the start of a slot's job the current time is
\* from 0 to 29 minutes past the slot's scheduled time on the current
\* local date, and the date of the job_key is that date.
C26_StartInsideWindow ==
    [][\A p \in Procs :
         Starts(p)
           => /\ MinutesPast(clock, SlotOrder[idx[p]]) >= 0
              /\ MinutesPast(clock, SlotOrder[idx[p]]) <= 29
              /\ job_key[p] = JobKey(SlotOrder[idx[p]], TodayLocal(clock))]_vars

\* C26 (amended): at the start of a slot's job the instant the invocation
\* read when it began (now_utc) is from 0 to 29 minutes past the slot's
\* scheduled time on the local date of that instant, and the date of the
\* job_key is that date.
C26_StartNeedsWindowAtRead ==
    [][\A p \in Procs :
         Starts(p)
           => /\ MinutesPast(now_utc[p], SlotOrder[idx[p]]) >= 0
              /\ MinutesPast(now_utc[p], SlotOrder[idx[p]]) <= 29
              /\ job_key[p] = JobKey(SlotOrder[idx[p]],
                                     TodayLocal(now_utc[p]))]_vars

\* A job running that was started on a reading of the last minute of its
\* window, on the second local date.
C26_Witness ==
    \E p \in Procs :
        /\ pc[p] = "running"
        /\ MinutesPast(now_utc[p], SlotOrder[idx[p]]) = 29
        /\ job_key[p] = JobKey(SlotOrder[idx[p]], DateStr(2))

\* The (slot, local date) pairs of the model.
SlotDates == (DOMAIN scheduled_jobs) \X LocalDates

\* The pairs for which check_if_job_ran answers True on the ledger as it
\* stands.
LockedPairs ==
    { sd \in SlotDates :
        CheckResult(TRUE, ColValues(ledger, 1), JobKey(sd[1], sd[2])) }

\* The pairs named by the key cell of a data row of the ledger.
RowPairs ==
    { sd \in SlotDates :
        \E i \in 2..Len(ledger) :
            ledger[i][1] = sd[1] \o "_" \o sd[2] }

\* C27: check_if_job_ran is True for exactly the (slot, date) pairs that
\* a row of the ledger names, one row naming one pair: the same slot on
\* another date and another slot on the same date stay clear.
C27_RowLocksOnePair ==
    /\ LockedPairs = RowPairs
    /\ Cardinality(LockedPairs) <= Len(ledger) - 1
    /\ \A sd \in SlotDates : \A te \in SlotDates :
          (sd # te /\ RowPairs = {sd}) => te \notin LockedPairs

\* With a row for the first slot on the first date in the ledger, and none
\* for the second slot on that date, an invocation of the second date found
\* the first slot clear.
C27_Witness ==
    /\ RowPairs = { <<"time1", DateStr(1)>> }
    /\ \E p \in Procs :
          /\ pc[p] = "mark"
          /\ job_key[p] = "time1_" \o DateStr(2)

C29_NoContentNotReselected ==
    [][(rpc = "select" /\ rot_item' # NoItem /\ rotation' = rotation)
         => \A i \in 1..Len(cycle.given) : cycle.given[i] # rot_item'[1]]_vars

\* The rows in which sheet b differs from sheet a.
ChangedRows(a, b) == { r \in 1..Len(a) : a[r] # b[r] }

\* C30: the selection and the mark of the category row leave every
\* payload sheet as it was; the draw and the mark of the payload row leave
\* the rotation sheet and the payload sheets of the other sources as they
\* were; a mark changes no row but its own, and one call marks at most one
\* category row and at most one payload row.
C30_StoresAreIndependent ==
    /\ [][/\ rpc \in {"idle", "select", "mark", "open", "done"}
               => payload' = payload
          /\ rpc \in {"idle", "open", "draw", "mark_payload", "done"}
               => rotation' = rotation
          /\ rpc \in {"draw", "mark_payload"}
               => \A k \in DOMAIN data_sources :
                     k # ContentTypeKey(rot_item) => payload'[k] = payload[k]
          /\ rpc = "mark"
               => ChangedRows(rotation, rotation') \subseteq {rot_item[1]}
          /\ rpc = "mark_payload"
               => ChangedRows(payload[ContentTypeKey(rot_item)],
                              payload'[ContentTypeKey(rot_item)])
                    \subseteq {content_item[1]}]_vars
    /\ [](/\ Cardinality(rot_marks) <= 1
          /\ Cardinality(payload_marks) <= 1)

\* A call marked one category row and one row of the quotes sheet; the
\* other category row and the facts sheet still read unused.
C30_Witness ==
    /\ rpc = "done"
    /\ rot_marks = {2}
    /\ payload_marks = {<<"quotes", 2>>}
    /\ Len(rotation) = 3
    /\ UsedOf(rotation, 2) = "TRUE" /\ UsedOf(rotation, 3) = "FALSE"
    /\ UsedOf(payload["quotes"], 2) = "TRUE"
    /\ Len(payload["facts"]) = 2
    /\ UsedOf(payload["facts"], 2) = "FALSE"

(***************************************************************************)
(* The claims about what clears a used mark.                               *)
(***************************************************************************)
\* C31: the used cell of a row goes from "TRUE" to another value only in
\* the batched write of the reset inside get_unused_item, and then to
\* "FALSE"; the write of mark_item_as_used and every other step leave a
\* "TRUE" in place.
C31_OnlyResetClearsUsed ==
    [][\A r \in DataRows(store) :
         (UsedOf(store, r) = "TRUE" /\ UsedOf(store', r) # "TRUE")
           => /\ UsedOf(store', r) = "FALSE"
              /\ \E w \in Callers :
                    /\ spc[w] = "reset_write" /\ spc'[w] = "reread"
                    /\ \E u \in updates[w] : u.row = r]_vars

\* A reset has just cleared a row that was used when the call read the
\* store, while the other process is inside its own call.
C31_Witness ==
    \E w \in Callers, v \in Callers, r \in DataRows(store) :
        /\ v # w
        /\ spc[w] = "reread" /\ resets[w] = 1
        /\ UsedOf(first_values[w], r) = "TRUE"
        /\ UsedOf(store, r) = "FALSE"
        /\ spc[v] \in {"returned", "mark_write"}

\* The turns of the loop of execute that were taken for the pair key.
TurnsFor(key) ==
    { g \in 1..Len(outcome) : content_groups[g].key = key }

\* The theme has a configuration whose type names a strategy module.
HasStrategy(theme) ==
    /\ theme \in DOMAIN themes
    /\ Get(themes[theme], "type", "llm_static") \in StrategyModules

ResetWriteStep(w) == spc[w] = "reset_write" /\ spc'[w] = "reread"

\* C33 as claimed: also with two processes on one store, the batched write
\* of the reset is applied only to a store without an unused row, and it
\* clears no row that is marked used in a store the other process had
\* already reset.
C33_ResetOnlyWhenExhausted ==
    [][\A w \in Callers :
         ResetWriteStep(w) => UnusedRows(store) = {}]_vars

\* C33: the batched write of the reset is made only by a call whose own
\* first read held no unused row, it writes "FALSE" to used cells only,
\* and the store it is applied to has no unused row when no write of
\* another process came after that first read.
C33_ResetAfterOwnExhaustedRead ==
    [][\A w \in Callers :
         ResetWriteStep(w)
           => /\ UnusedRows(first_values[w]) = {}
              /\ unused_items[w] = <<>>
              /\ \A u \in updates[w] :
                    /\ u.value = "FALSE"
                    /\ u.col = ColumnOf(header[w], "used")
              /\ store = first_values[w] => UnusedRows(store) = {}]_vars

\* Both processes saw the store exhausted; the first reset it, selected a
\* row and marked it, and the second has now written its reset over that
\* mark: the consumed row reads unused again.
C33_Witness ==
    \E w \in Callers, v \in Callers :
        /\ v # w
        /\ spc[w] = "reread" /\ resets[w] = 1
        /\ UnusedRows(first_values[w]) = {}
        /\ DataRows(first_values[w]) # {}
        /\ store # first_values[w]
        /\ spc[v] = "idle"
        /\ mark_warning = "none"
        /\ last_mark = NoMark
        /\ \A r \in DataRows(store) : UsedOf(store, r) = "FALSE"
        /\ \E r \in DataRows(store) : store[r][4] # ""

(***************************************************************************)
(* The claim about a slot whose window holds the time of the invocation.   *)
(***************************************************************************)
\* The step of p is the end of the loop of main.
FinishStep(p) ==
    pc[p] = "loop" /\ idx[p] > Len(SlotOrder) /\ pc'[p] = "idle"

\* The slot's key for the local date of the instant invocation p read.
KeyAtRead(p, time_key) == JobKey(time_key, TodayLocal(now_utc[p]))

\* The instant invocation p read is inside the window of the slot.
InWindowAtRead(p, time_key) ==
    InWindow(TimeDiffMinutes(now_utc[p], now_utc[p],
                             scheduled_jobs[time_key]))

\* The ledger was readable and writable for the key in invocation p (no
\* read of the key column raised, no append left the key out) and held no
\* row with the key that p did not append itself.
LedgerFreeFor(p, key) ==
    /\ key \notin mine[p].readErr
    /\ ~(key \in mine[p].starts /\ key \notin mine[p].rows)
    /\ \A j \in 2..Len(ledger) : ledger[j][1] = key => key \in mine[p].rows

\* C34 as claimed: when an invocation ends, every slot whose window held
\* the instant it read, and whose key the readable and writable ledger did
\* not hold, has had its key appended and its job started by that
\* invocation, whatever happened to the other slots.
C34_SlotInWindowIsStarted ==
    [][\A p \in Procs : \A time_key \in DOMAIN scheduled_jobs :
         (/\ FinishStep(p)
          /\ InWindowAtRead(p, time_key)
          /\ LedgerFreeFor(p, KeyAtRead(p, time_key)))
           => /\ KeyAtRead(p, time_key) \in mine[p].rows
              /\ KeyAtRead(p, time_key) \in mine[p].starts]_vars

\* What the code does give: the same, for an invocation that ends on the
\* local date of the instant it read.
C34_StartedUnlessDateChanged ==
    [][\A p \in Procs : \A time_key \in DOMAIN scheduled_jobs :
         (/\ FinishStep(p)
          /\ InWindowAtRead(p, time_key)
          /\ LedgerFreeFor(p, KeyAtRead(p, time_key))
          /\ TodayLocal(clock) = TodayLocal(now_utc[p]))
           => /\ KeyAtRead(p, time_key) \in mine[p].rows
              /\ KeyAtRead(p, time_key) \in mine[p].starts]_vars

\* An invocation that read an instant inside the windows of both slots is
\* at the end of its loop; it started the job of the first slot, the date
\* changed while that job ran, and the second slot was passed over.
C34_SlotPassedOver ==
    \E p \in Procs :
        /\ pc[p] = "loop" /\ idx[p] > Len(SlotOrder)
        /\ \A time_key \in DOMAIN scheduled_jobs :
              InWindowAtRead(p, time_key)
        /\ KeyAtRead(p, "time1") \in mine[p].starts
        /\ LedgerFreeFor(p, KeyAtRead(p, "time2"))
        /\ KeyAtRead(p, "time2") \notin mine[p].starts
        /\ TodayLocal(clock) # TodayLocal(now_utc[p])

(***************************************************************************)
(* The claim about an exception inside the loop of the dispatcher.         *)
(***************************************************************************)
\* Invocation p is inside the for loop of main.
InLoop(p) == pc[p] \in {"loop", "check", "mark", "run", "running"}

\* The step of p is the one in which the handling of a slot raises: the
\* schedule string of the slot is no time, or the job of the slot exits
\* non-zero.
RaisesStep(p) ==
    \/ /\ pc[p] = "loop" /\ idx[p] <= Len(SlotOrder)
       /\ ScheduleRaises(schedule[SlotOrder[idx[p]]])
       /\ idx'[p] # idx[p]
    \/ /\ pc[p] = "running" /\ pc'[p] # "running"
       /\ job_key[p] \in failed' \ failed

\* C35: a step in which the handling of a slot raises leaves the invocation
\* in the loop, at the next slot; the loop passes from a slot to the next
\* one only, and the invocation leaves the loop only after the last slot,
\* so that every slot after the one that raised is evaluated.
C35_LoopGoesOnAfterException ==
    [][\A p \in Procs :
         /\ RaisesStep(p) => pc'[p] = "loop" /\ idx'[p] = idx[p] + 1
         /\ (InLoop(p) /\ InLoop(p)') => idx'[p] \in {idx[p], idx[p] + 1}
         /\ (InLoop(p) /\ ~InLoop(p)') => idx[p] = Len(SlotOrder) + 1]_vars

\* The job of the first slot exited non-zero, the loop went on to the
\* second slot, whose schedule string is no time, and went on again to its
\* end.
C35_Witness ==
    \E p \in Procs :
        /\ pc[p] = "loop" /\ idx[p] = Len(SlotOrder) + 1
        /\ JobKey("time1", today_local[p]) \in failed \cap mine[p].starts
        /\ ScheduleRaises(schedule["time2"])

(***************************************************************************)
(* The claim about the fallback body of an exhausted payload sheet.        *)
(***************************************************************************)
\* C36: in calls of _get_rotating_content whose store calls succeed, the
\* body for an exhausted category is returned only when the payload sheet
\* of the selected category has no data row; a sheet with a used column
\* and a data row yields the content of one of its rows, after the reset
\* if all were used.
C36_ExhaustedOnlyWithoutRows ==
    (rpc = "done" /\ rot_item # NoItem
       /\ ContentTypeKey(rot_item) \in payload_opens)
      => LET sheet == payload[ContentTypeKey(rot_item)]
         IN  /\ returned[2] = ExhaustedBody => DataRows(sheet) = {}
             /\ (DataRows(sheet) # {} /\ ColumnOf(sheet[1], "used") # 0)
                   => /\ content_item # NoItem
                      /\ returned[2] = Get(content_item[2], "content", "")

\* A later call finds every row of the payload sheet used (the call before
\* marked it), and returns the content of a row after the reset.
C36_Witness ==
    /\ rpc = "done" /\ rot_item # NoItem
    /\ ContentTypeKey(rot_item) \in payload_opens
    /\ content_item # NoItem
    /\ content_item[2]["used"] = "FALSE"
    /\ returned[2] = Get(content_item[2], "content", "")
    /\ \E r \in DataRows(rotation) :
          /\ r # rot_item[1]
          /\ UsedOf(rotation, r) = "TRUE"
          /\ rotation[r][1] = ContentTypeKey(rot_item)
          /\ rotation[r][4] # ""

(***************************************************************************)
(* The claims about the rows a strategy run consumes.                      *)
(***************************************************************************)
\* mark_item_as_used has written to row r of the sheet: the rows of the
\* sheets of a strategy run start without a date_used value, a mark writes
\* one, a reset leaves it.
MarkedIn(sheet, r) == sheet[r][ColumnOf(sheet[1], "date_used")] # ""

\* The worksheets a strategy can reach.
StrategySheets ==
    {store, rotation} \cup { payload[k] : k \in DOMAIN data_sources }

\* Some row was marked during the run.
SomeRowMarked ==
    \E sheet \in StrategySheets : \E r \in DataRows(sheet) : MarkedIn(sheet, r)

\* execute() is over: it returned, or raised into the caller.
StrategyOver == tpc \in {"returned", "raised"}

C37_DynamicMarkedWithoutText ==
    /\ strategy_type = "llm_dynamic"
    /\ tpc = "returned" /\ final_text = NoValue
    /\ rot_item # NoItem /\ MarkedIn(rotation, rot_item[1])
    /\ content_item # NoItem
    /\ MarkedIn(payload[ContentTypeKey(rot_item)], content_item[1])

\* The run of simple_static marked its row and returned the empty text.
C37_SimpleMarkedEmptyText ==
    /\ strategy_type = "simple_static"
    /\ tpc = "returned" /\ final_text = ""
    /\ row_item # NoItem /\ MarkedIn(store, row_item[1])

\* The selected art row, the selected language row of the hybrid run is
\* marked.
ArtMarked ==
    art_item # NoItem /\ MarkedIn(payload[art_source], art_item[1])

LanguageMarked ==
    lang_item # NoItem /\ MarkedIn(payload[language_source], lang_item[1])

\* C38 as claimed: when execute() of hybrid_dual_static is over, both
\* selected rows are marked and a text was returned, or neither is marked
\* and no text was returned.
C38_BothOrNeither ==
    (strategy_type = "hybrid_dual_static" /\ StrategyOver)
      => \/ /\ ArtMarked /\ LanguageMarked
            /\ tpc = "returned" /\ Truthy(final_text)
         \/ /\ ~ArtMarked /\ ~LanguageMarked
            /\ ~(tpc = "returned" /\ Truthy(final_text))

\* C38: when execute() of hybrid_dual_static is over, a selected row is
\* marked only if a non-empty text was returned, and a run that returned no
\* text marked neither row.
C38_MarksOnlyWithText ==
    (strategy_type = "hybrid_dual_static" /\ StrategyOver)
      => /\ (ArtMarked \/ LanguageMarked)
              => tpc = "returned" /\ Truthy(final_text)
         /\ (tpc = "returned" /\ ~Truthy(final_text))
              => ~ArtMarked /\ ~LanguageMarked

\* The hybrid run returned its text with both selected rows marked.
C38_Witness ==
    /\ strategy_type = "hybrid_dual_static"
    /\ tpc = "returned" /\ Truthy(final_text)
    /\ ArtMarked /\ LanguageMarked
    /\ UsedOf(payload[art_source], art_item[1]) = "TRUE"
    /\ UsedOf(payload[language_source], lang_item[1]) = "TRUE"

\* The hybrid run returned its text with the art row marked and the
\* language row not.
C38_OnlyArtMarked ==
    /\ strategy_type = "hybrid_dual_static"
    /\ tpc = "returned" /\ Truthy(final_text)
    /\ ArtMarked /\ ~LanguageMarked

====
